---- MODULE Spec2Model ----
(***************************************************************************)
(* Model of the MedEx / Bissoy crawling scripts.                           *)
(*                                                                         *)
(*   SpecDetail : the per-item detail fetcher (fetch_medex_brand_details   *)
(*                and the directory-driven variant with retrying fetchHtml)*)
(*   SpecSplit  : the page-batch scraper writing one file per batch        *)
(*   SpecRuns   : one run of either of the two programs                    *)
(*   SpecV1     : the single-file listing scraper                          *)
(*   SpecFast   : the concurrent scraper appending to one file             *)
(*   SpecSection, SpecDosage, SpecPricing : parts of parseBrandDetail      *)
(*   SpecPositional, SpecLabelFirst : the two listing extractors           *)
(*                                                                         *)
(* Files are modelled as texts (sequences of tokens): JSON.stringify of an *)
(* array is "[" , its elements, "]"; an empty file is the empty text.      *)
(* A process kill loses all in-memory state and keeps the files.           *)
(***************************************************************************)
EXTENDS Integers, Sequences, FiniteSets, TLC

VARIABLES
    prog,        \* what runs: the script "detail", "split", "v1" or "fast", or "parse":
                 \* one call of an extraction function
    run,         \* number of the current process run (1 = first run)
    \* ---- per-item detail fetcher
    variant,     \* "single": fetch_medex_brand_details.js, "dir": the medicine_split variant
    input,       \* the parsed input array (raw item urls)
    redirect,    \* the server's final url for each requested path
    dpc,         \* position of main()
    i,           \* loop index of main(), 1-based
    outputArr,   \* in-memory mirror of the output array
    outFile,     \* text of OUTPUT_FILE, or Missing
    cur,         \* the object being appended (parsed or errObj)
    retries,     \* remaining retries of the current fetchHtml call
    dInflight,   \* HTTP requests in flight
    ioFailed,    \* history: some file read or write has failed since the first start
    dhist,       \* history: the items requested and the reading of the input in this run,
                 \* the urls an error record was persisted for in any run
    \* ---- page-batch scraper (one file per batch)
    maxPages,    \* MAX_PAGES
    batchSize,   \* BATCH_SIZE
    maxRetries,  \* MAX_RETRIES
    content,     \* what the site serves for each page
    files,       \* OUT_DIR: file name <<start, end>> -> text, or Missing
    spc,         \* position of main()
    start,       \* loop variable of main()
    fw,          \* the fetchWithRetries call of each page of the current batch
    batchItems,  \* batchItems of the current batch
    batchFailed, \* batchFailed of the current batch
    failedPages, \* failedPages
    totalSaved,  \* totalSaved
    log,         \* the last per-batch log line
    failedUnique, \* the failed pages of the final report
    hist,        \* history of the run: batches reached, delays, environment faults
    \* ---- v1 scraper (scrape_medex_brands_v1.js: one output file, heuristic stop)
    vMaxPages,   \* MAX_PAGES
    vConcurrency, \* CONCURRENCY
    vContent,    \* what the site serves for each page
    vpc,         \* position of main()
    vPage,       \* loop variable `page` of main()
    results,     \* the async function of each page: its position and its result
    all,         \* all
    consecutiveEmptyBatches, \* consecutiveEmptyBatches
    vOutFile,    \* text of OUTFILE, or Missing
    vhist,       \* history: the first pages of the batches whose results were merged
    \* ---- single-file "fast" scraper (scrape_medex_brands_fast.js); its loop, its
    \* ---- fetchWithRetries calls and its report use the page-batch variables above
    fOutFile,    \* text of OUTFILE, or Missing
    fhist,       \* history: the records merged in this run, failed file operations
    \* ---- the extraction functions applied to one document
    fn,          \* the function applied: "none" before the call
    arg,         \* the document (or the part of it) the function reads
    ret          \* what the call returned or threw

splitVars == <<maxPages, batchSize, maxRetries, content, files, spc, start, fw,
               batchItems, batchFailed, failedPages, totalSaved, log, failedUnique, hist>>

v1Vars == <<vMaxPages, vConcurrency, vContent, vpc, vPage, results, all,
            consecutiveEmptyBatches, vOutFile, vhist>>

fastVars == <<fOutFile, fhist>>

parseVars == <<fn, arg, ret>>

detailVars == <<variant, input, redirect, dpc, i, outputArr, outFile, cur, retries,
                dInflight, ioFailed, dhist>>

----------------------------------------------------------------------------
(* Bounds *)
MaxRuns == 2
MaxInput == 2
MaxPagesBound == 3
MaxBatchBound == 2
MaxRetriesBound == 2

----------------------------------------------------------------------------
(* Texts and JSON *)

Missing == <<"ENOENT">>

\* JSON.stringify(arr, null, 2) for an array
Stringify(arr) == <<"[">> \o arr \o <<"]">>

IsArrayText(txt) ==
    /\ Len(txt) >= 2
    /\ txt[1] = "["
    /\ txt[Len(txt)] = "]"

\* JSON.parse of an array text
ParseArray(txt) == SubSeq(txt, 2, Len(txt) - 1)

\* a text that parses as JSON but is no array
ObjectText == <<"{", "}">>

SeqsUpTo(S, n) == UNION {[1..k -> S] : k \in 0..n}

----------------------------------------------------------------------------
(* Urls.  A url is [form, path]: "abs" starts with http, "root" starts with *)
(* "/", "rel" is any other non-empty string, "none" is a missing url.       *)
(* Urls carry no surrounding whitespace, so trim() leaves them as they are. *)

\* the brand pages of the site
Paths == {1, 2}

NoUrl == [form |-> "none", path |-> 0]

Url(f, p) == [form |-> f, path |-> p]

\* the input items considered: page 1 in every spelling, page 2, an item without url
Items == {Url(f, 1) : f \in {"abs", "root", "rel"}} \cup {Url("abs", 2), NoUrl}

normalizeUrl(u) ==
    IF u.form = "none" THEN u
    ELSE IF u.form = "abs" THEN u
    ELSE IF u.form = "root" THEN Url("abs", u.path)
    ELSE Url("abs", u.path)

\* main: src ? normalizeUrl(src) : null
SourceUrlOf(item) == IF item.form = "none" THEN NoUrl ELSE normalizeUrl(item)

\* variant: only the last record of the mirror is compared
alreadyProcessed_lastOnly(arr, sourceUrl) ==
    IF sourceUrl.form = "none" \/ arr = <<>> THEN FALSE
    ELSE \/ arr[Len(arr)].source_url = sourceUrl
         \/ arr[Len(arr)].source_url = normalizeUrl(sourceUrl)

alreadyProcessed(arr, sourceUrl) ==
    IF sourceUrl.form = "none" THEN FALSE
    ELSE \E k \in DOMAIN arr :
            \/ arr[k].source_url = sourceUrl
            \/ arr[k].source_url = normalizeUrl(sourceUrl)

\* parseBrandDetail(html, pageUrl): the record's source_url is pageUrl
parseBrandDetail(pageUrl, idx, item) ==
    [source_url |-> pageUrl, kind |-> "ok", error |-> "", item |-> item, input_index |-> idx]

\* variant: the error record is built without the item's url
ErrObj_withoutUrl(sourceUrl, msg, idx, item) ==
    [source_url |-> NoUrl, kind |-> "error", error |-> msg, item |-> item, input_index |-> idx]

ErrObj(sourceUrl, msg, idx, item) ==
    [source_url |-> sourceUrl, kind |-> "error", error |-> msg, item |-> item, input_index |-> idx]

NoObj == [source_url |-> NoUrl, kind |-> "none", error |-> "", item |-> NoUrl, input_index |-> 0]

\* resp.request.res.responseUrl || url
FinalUrl(u) == Url("abs", redirect[u.path])

\* fetchHtml(url, retries = 2) of the "dir" variant; the "single" variant has no retry
InitialRetries == IF variant = "dir" THEN 2 ELSE 0

----------------------------------------------------------------------------
(* The per-item detail fetcher *)

\* the records a reader of the output file finds
Records(txt) == IF txt # Missing /\ IsArrayText(txt) THEN ParseArray(txt) ELSE <<>>

\* the outcomes of one file operation: a history has at most one failing file
\* operation call (one call may fail in its read, its write, or both)
IoOutcomes == IF ioFailed THEN {TRUE} ELSE BOOLEAN

\* the sites considered: page 2 is served as it is, page 1 as it is or redirected
Redirects == {r \in [Paths -> Paths] : r[2] = 2}

DetailInit ==
    /\ variant \in {"single", "dir"}
    /\ input \in SeqsUpTo(Items, MaxInput)
    /\ redirect \in Redirects
    /\ outFile \in {Missing, <<>>, ObjectText}
    /\ dpc = "start"
    /\ i = 0
    /\ outputArr = <<>>
    /\ cur = NoObj
    /\ retries = 0
    /\ dInflight = 0
    /\ ioFailed = FALSE
    /\ dhist = [requested |-> {}, inputRead |-> "no", errorSaved |-> {}]

\* variant: the error of reading the input is swallowed and main goes on
readJsonFileOrDie_swallowed ==
    /\ prog = "detail"
    /\ \/ variant = "single" /\ dpc = "start"
       \/ variant = "dir" /\ dpc = "read"
    /\ \E ok \in IoOutcomes :
        /\ dpc' = IF variant = "single" THEN "ensure" ELSE "loop"
        /\ ioFailed' = (ioFailed \/ ~ok)
        /\ dhist' = [dhist EXCEPT !.inputRead = IF ok THEN "ok" ELSE "failed"]
    /\ i' = 1
    /\ UNCHANGED <<prog, fastVars, parseVars, run, v1Vars, splitVars, variant, input, redirect, outputArr, outFile, cur, retries, dInflight>>

\* readJsonFileOrDie(INPUT_FILE) in main; the "dir" variant reads the input after
\* ensureOutputFile and skips the file when it cannot be read
readJsonFileOrDie ==
    /\ prog = "detail"
    /\ \/ variant = "single" /\ dpc = "start"
       \/ variant = "dir" /\ dpc = "read"
    /\ \E ok \in IoOutcomes :
        /\ dpc' = IF ok THEN (IF variant = "single" THEN "ensure" ELSE "loop")
                  ELSE (IF variant = "single" THEN "exit" ELSE "done")
        /\ ioFailed' = (ioFailed \/ ~ok)
        /\ dhist' = [dhist EXCEPT !.inputRead = IF ok THEN "ok" ELSE "failed"]
    /\ i' = 1
    /\ UNCHANGED <<prog, fastVars, parseVars, run, v1Vars, splitVars, variant, input, redirect, outputArr, outFile, cur, retries, dInflight>>

\* ensureOutputFile: returns the array in the file, or (re)creates the file as []
ensureOutputFile ==
    /\ prog = "detail"
    /\ \/ variant = "single" /\ dpc = "ensure"
       \/ variant = "dir" /\ dpc = "start"
    /\ \E readOk \in IoOutcomes, writeOk \in IoOutcomes :
        LET usable == outFile # Missing /\ readOk /\ IsArrayText(outFile) IN
        IF usable
        THEN /\ outputArr' = ParseArray(outFile)
             /\ outFile' = outFile
             /\ dpc' = IF variant = "single" THEN "loop" ELSE "read"
             /\ ioFailed' = ioFailed
        ELSE IF writeOk
        THEN /\ outputArr' = <<>>
             /\ outFile' = Stringify(<<>>)
             /\ dpc' = IF variant = "single" THEN "loop" ELSE "read"
             /\ ioFailed' = (ioFailed \/ (outFile # Missing /\ ~readOk))
        ELSE /\ outputArr' = <<>>
             /\ outFile' = outFile
             /\ dpc' = "exit"
             /\ ioFailed' = TRUE
    /\ i' = 1
    /\ UNCHANGED <<prog, fastVars, parseVars, run, v1Vars, splitVars, variant, input, redirect, dhist, cur, retries, dInflight>>

\* variant: the array is written back without the new object
AppendedText_withoutPush(txt, readOk, newObj) ==
    LET arr == IF txt # Missing /\ readOk /\ IsArrayText(txt) THEN ParseArray(txt) ELSE <<>>
    IN  Stringify(arr)

\* appendToOutput(newObj): the text written, given whether the read succeeded
AppendedText(txt, readOk, newObj) ==
    LET arr == IF txt # Missing /\ readOk /\ IsArrayText(txt) THEN ParseArray(txt) ELSE <<>>
    IN  Stringify(Append(arr, newObj))

\* main, loop head: end of input, skip, or start handling input[i]
LoopHead ==
    /\ prog = "detail"
    /\ dpc = "loop"
    /\ IF i > Len(input)
       THEN /\ dpc' = "done"
            /\ UNCHANGED <<i, cur, retries, dInflight, outFile, ioFailed, dhist>>
       ELSE LET item == input[i]
                source_url == SourceUrlOf(item)
            IN  IF variant = "dir" /\ source_url = NoUrl
                THEN \* errObj "missing source_url" appended outside any try
                     \E readOk \in IoOutcomes, writeOk \in IoOutcomes :
                        /\ cur' = ErrObj(NoUrl, "missing source_url", i, item)
                        /\ outFile' = IF writeOk THEN AppendedText(outFile, readOk, cur')
                                      ELSE outFile
                        /\ dpc' = IF writeOk THEN "nourlmirror" ELSE "exit"
                        /\ ioFailed' = (ioFailed \/ ~readOk \/ ~writeOk)
                        /\ UNCHANGED <<i, retries, dInflight, dhist>>
                ELSE IF alreadyProcessed(outputArr, source_url)
                THEN /\ i' = i + 1
                     /\ UNCHANGED <<dpc, cur, retries, dInflight, outFile, ioFailed, dhist>>
                ELSE IF source_url = NoUrl
                THEN \* axios.get(null) throws before any request is made
                     /\ cur' = ErrObj(NoUrl, "Fetch failed", i, item)
                     /\ dpc' = "errappend"
                     /\ UNCHANGED <<i, retries, dInflight, outFile, ioFailed, dhist>>
                ELSE /\ dInflight' = dInflight + 1
                     /\ retries' = InitialRetries
                     /\ dpc' = "fetch"
                     /\ dhist' = [dhist EXCEPT !.requested = @ \cup {i}]
                     /\ UNCHANGED <<i, cur, outFile, ioFailed>>
    /\ UNCHANGED <<prog, fastVars, parseVars, run, v1Vars, splitVars, variant, input, redirect, outputArr>>

\* the "dir" variant's mirror update after the missing-url record; continue without delay
NoUrlMirror ==
    /\ prog = "detail"
    /\ dpc = "nourlmirror"
    /\ outputArr' = Append(outputArr, cur)
    /\ i' = i + 1
    /\ dpc' = "loop"
    /\ UNCHANGED <<prog, fastVars, parseVars, run, v1Vars, splitVars, variant, input, redirect, dhist, outFile, cur, retries, dInflight, ioFailed>>

\* fetchHtml: the response of the request in flight, then parseBrandDetail
fetchHtml ==
    /\ prog = "detail"
    /\ dpc = "fetch"
    /\ dInflight' = dInflight - 1
    /\ LET item == input[i]
           source_url == SourceUrlOf(item)
       IN  \E outcome \in {"ok", "parse_throws", "fetch_fails"} :
            CASE outcome = "ok" ->
                    /\ cur' = parseBrandDetail(FinalUrl(source_url), i, item)
                    /\ dpc' = "append"
              [] outcome = "parse_throws" ->
                    /\ cur' = ErrObj(source_url, "parse", i, item)
                    /\ dpc' = "errappend"
              [] outcome = "fetch_fails" ->
                    IF retries > 0
                    THEN /\ dpc' = "retrywait"
                         /\ cur' = cur
                    ELSE /\ cur' = ErrObj(source_url, "Fetch failed", i, item)
                         /\ dpc' = "errappend"
    /\ UNCHANGED <<prog, fastVars, parseVars, run, v1Vars, splitVars, variant, input, redirect, dhist, i, outputArr, outFile, retries, ioFailed>>

\* fetchHtml: after sleep(500), the recursive call with retries - 1
fetchHtmlRetry ==
    /\ prog = "detail"
    /\ dpc = "retrywait"
    /\ retries' = retries - 1
    /\ dInflight' = dInflight + 1
    /\ dpc' = "fetch"
    /\ UNCHANGED <<prog, fastVars, parseVars, run, v1Vars, splitVars, variant, input, redirect, dhist, i, outputArr, outFile, cur, ioFailed>>

\* await appendToOutput(parsed); a failed write throws into the catch block
appendToOutput ==
    /\ prog = "detail"
    /\ dpc = "append"
    /\ \E readOk \in IoOutcomes, writeOk \in IoOutcomes :
        /\ ioFailed' = (ioFailed \/ ~readOk \/ ~writeOk)
        /\ IF writeOk
           THEN /\ outFile' = AppendedText(outFile, readOk, cur)
                /\ cur' = cur
                /\ dpc' = "mirror"
           ELSE /\ outFile' = outFile
                /\ cur' = ErrObj(SourceUrlOf(input[i]), "write", i, input[i])
                /\ dpc' = "errappend"
    /\ UNCHANGED <<prog, fastVars, parseVars, run, v1Vars, splitVars, variant, input, redirect, dhist, i, outputArr, retries, dInflight>>

\* catch block: await appendToOutput(errObj), its own failure only logged
appendErrObj ==
    /\ prog = "detail"
    /\ dpc = "errappend"
    /\ \E readOk \in IoOutcomes, writeOk \in IoOutcomes :
        /\ ioFailed' = (ioFailed \/ ~readOk \/ ~writeOk)
        /\ IF writeOk
           THEN /\ outFile' = AppendedText(outFile, readOk, cur)
                /\ dpc' = "mirror"
                /\ dhist' = [dhist EXCEPT !.errorSaved =
                                IF cur.source_url = NoUrl THEN @ ELSE @ \cup {cur.source_url}]
           ELSE /\ outFile' = outFile
                /\ dpc' = "sleep"
                /\ dhist' = dhist
    /\ UNCHANGED <<prog, fastVars, parseVars, run, v1Vars, splitVars, variant, input, redirect, i, outputArr, cur, retries, dInflight>>

\* outputArr.push(parsed) / outputArr.push(errObj)
MirrorPush ==
    /\ prog = "detail"
    /\ dpc = "mirror"
    /\ outputArr' = Append(outputArr, cur)
    /\ dpc' = "sleep"
    /\ UNCHANGED <<prog, fastVars, parseVars, run, v1Vars, splitVars, variant, input, redirect, dhist, i, outFile, cur, retries, dInflight, ioFailed>>

\* await sleep(REQUEST_DELAY_MS), then the next item
RequestDelay ==
    /\ prog = "detail"
    /\ dpc = "sleep"
    /\ i' = i + 1
    /\ dpc' = "loop"
    /\ UNCHANGED <<prog, fastVars, parseVars, run, v1Vars, splitVars, variant, input, redirect, dhist, outputArr, outFile, cur, retries, dInflight, ioFailed>>

\* the process is killed (or has ended) and the script is started again:
\* only the files survive
DetailRestart ==
    /\ prog = "detail"
    /\ run < MaxRuns
    /\ run' = run + 1
    /\ dpc' = "start"
    /\ i' = 0
    /\ outputArr' = <<>>
    /\ cur' = NoObj
    /\ retries' = 0
    /\ dInflight' = 0
    /\ dhist' = [requested |-> {}, inputRead |-> "no", errorSaved |-> dhist.errorSaved]
    /\ UNCHANGED <<prog, fastVars, parseVars, v1Vars, variant, input, redirect, outFile, ioFailed, splitVars>>

----------------------------------------------------------------------------
(* The page-batch scraper writing page_{start}_to_{end}.json per batch *)

PageKinds == {"two", "bad", "down"}

Min(a, b) == IF a < b THEN a ELSE b

AllNames == {<<s, e>> \in (1..(MaxPagesBound + MaxBatchBound)) \X (1..(MaxPagesBound + MaxBatchBound)) : TRUE}

\* variant: the end of the range is not clamped to MAX_PAGES
EndOf_unclamped(s) == s + batchSize - 1

\* main: const end = Math.min(start + BATCH_SIZE - 1, MAX_PAGES)
EndOf(s) == Min(s + batchSize - 1, maxPages)

\* main: `page_${start}_to_${end}.json`
OutFileName(s) == <<s, EndOf(s)>>

\* main: for (let p = start; p <= end; p++) pages.push(p)
PagesOf(s) == s..EndOf(s)

\* variant: the file only has to exist
fileExistsNonEmpty_exists(name) == files[name] # Missing

\* variant: no batch is ever recognised as done
fileExistsNonEmpty_never(name) == FALSE

\* variant: a file counts only when it holds a record
fileExistsNonEmpty_hasRecords(name) ==
    IF files[name] = Missing THEN FALSE ELSE Len(files[name]) > 2

\* fs.stat(filePath).size > 0, false when stat throws
fileExistsNonEmpty(name) ==
    IF files[name] = Missing THEN FALSE ELSE Len(files[name]) > 0

\* a fetchWithRetries call: phase "idle" (not called), "inflight" (awaiting
\* fetchPageRaw), "sleeping" (awaiting sleep(RETRY_DELAY_MS)), "done" (returned).
\* The error of attempt n is the message n; html n is the body served to attempt n.
\* okAt and slept are history: the attempt that succeeded, the delays taken.
Idle == [phase |-> "idle", attempt |-> 0, lastErr |-> 0, success |-> FALSE,
         html |-> 0, error |-> 0, okAt |-> 0, slept |-> 0]

\* the entries parsePageByStructure extracts from a page, in document order
EntriesOf(p) ==
    IF content[p] = "two" THEN <<[page |-> p, pos |-> 1], [page |-> p, pos |-> 2]>>
    ELSE <<>>

\* parsePageByStructure throws on this page
ParseThrows(p) == content[p] = "bad"

\* variant: every item is tagged with the first page of the batch
Tagged_batchStart(entries, page) ==
    [k \in DOMAIN entries |-> [entry |-> entries[k], source_page |-> start]]

\* main: it._source_page = res.page for every parsed item
Tagged(entries, page) ==
    [k \in DOMAIN entries |-> [entry |-> entries[k], source_page |-> page]]

\* variant: the exception of the parser ends the merge of the batch
RECURSIVE MergeItems_stopAtThrow(_, _)
MergeItems_stopAtThrow(p, e) ==
    IF p > e THEN <<>>
    ELSE IF fw[p].success /\ ParseThrows(p) THEN <<>>
    ELSE IF fw[p].success
         THEN Tagged(EntriesOf(p), p) \o MergeItems_stopAtThrow(p + 1, e)
         ELSE MergeItems_stopAtThrow(p + 1, e)

\* variant: the items of a page are put in front of those merged before it
RECURSIVE MergeItems_unshift(_, _)
MergeItems_unshift(p, e) ==
    IF p > e THEN <<>>
    ELSE IF fw[p].success /\ ~ParseThrows(p)
         THEN MergeItems_unshift(p + 1, e) \o Tagged(EntriesOf(p), p)
         ELSE MergeItems_unshift(p + 1, e)

\* main, lines 191-207: merge of the results in page order, starting from page p
RECURSIVE MergeItems(_, _)
MergeItems(p, e) ==
    IF p > e THEN <<>>
    ELSE IF fw[p].success /\ ~ParseThrows(p)
         THEN Tagged(EntriesOf(p), p) \o MergeItems(p + 1, e)
         ELSE MergeItems(p + 1, e)

\* An error text is [prefix, message]; a message names the exception it is the
\* message of: the error of attempt n of a fetch, the exception the parser throws on
\* page n, the error of fs.writeFile, or "unknown".
Message(src, n) == [src |-> src, n |-> n]

\* main: error: res.error || "unknown"
FetchError(w) ==
    [prefix |-> "", message |-> IF w.error > 0 THEN Message("fetch", w.error)
                                ELSE Message("unknown", 0)]

\* main: "parse_error: " + (err.message || String(err))
ParseError(p) == [prefix |-> "parse_error: ", message |-> Message("parse", p)]

\* main: "write_error: " + (err.message || String(err))
WriteError == [prefix |-> "write_error: ", message |-> Message("write", 0)]

RECURSIVE MergeFailed(_, _)
MergeFailed(p, e) ==
    IF p > e THEN <<>>
    ELSE IF ~fw[p].success
         THEN <<[page |-> p, error |-> FetchError(fw[p])]>> \o MergeFailed(p + 1, e)
         ELSE IF ParseThrows(p)
              THEN <<[page |-> p, error |-> ParseError(p)]>> \o MergeFailed(p + 1, e)
              ELSE MergeFailed(p + 1, e)

\* variant: every page of the batch is added as a write error
RECURSIVE AddWriteErrors_all(_, _, _)
AddWriteErrors_all(failed, p, e) ==
    IF p > e THEN failed
    ELSE AddWriteErrors_all(Append(failed, [page |-> p, error |-> WriteError]), p + 1, e)

\* main, lines 215-217: pages not yet in batchFailed are added as write errors
RECURSIVE AddWriteErrors(_, _, _)
AddWriteErrors(failed, p, e) ==
    IF p > e THEN failed
    ELSE IF \E k \in DOMAIN failed : failed[k].page = p
         THEN AddWriteErrors(failed, p + 1, e)
         ELSE AddWriteErrors(Append(failed, [page |-> p, error |-> WriteError]), p + 1, e)

PagesIn(failed) == [k \in DOMAIN failed |-> failed[k].page]

NoLog == [start |-> 0, end |-> 0, saved |-> 0, failed |-> 0]

\* history: reached = the ranges the loop has enumerated in this run, closed = the
\* batches skipped or whose delay has elapsed, wrote = the batches written in this
\* run, fault = a page that is up ran out of retries or a write failed (in any run),
\* killedMidBatch = an earlier run was killed between dispatch and the end of the write,
\* fetchFailed = the pages whose fetchWithRetries call returned a failure in this run,
\* writeFailed = the batches whose write threw in this run, lost = the batches whose
\* write threw in some run and that no run has written since, settled = the pages of
\* the batch being fetched, in the order in which their calls returned
NoHist == [reached |-> <<>>, closed |-> {}, wrote |-> {}, fault |-> FALSE,
           killedMidBatch |-> FALSE, fetchFailed |-> {}, writeFailed |-> {}, lost |-> {},
           settled |-> <<>>]

\* the sites considered: at most one page that is down and one that does not parse
Contents(n) ==
    {c \in [1..n -> PageKinds] :
        /\ Cardinality({p \in 1..n : c[p] = "down"}) <= 1
        /\ Cardinality({p \in 1..n : c[p] = "bad"}) <= 1}

\* OUT_DIR at the first start: no batch file, or an empty file for the first batch
SplitInit ==
    /\ maxPages \in 1..MaxPagesBound
    /\ batchSize \in 1..MaxBatchBound
    /\ maxRetries \in 1..MaxRetriesBound
    /\ content \in Contents(maxPages)
    /\ \E blank \in BOOLEAN :
         files = [n \in AllNames |-> IF blank /\ n = OutFileName(1) THEN <<>> ELSE Missing]
    /\ spc = "check"
    /\ start = 1
    /\ fw = [p \in 1..(MaxPagesBound + MaxBatchBound) |-> Idle]
    /\ batchItems = <<>>
    /\ batchFailed = <<>>
    /\ failedPages = <<>>
    /\ totalSaved = 0
    /\ log = NoLog
    /\ failedUnique = <<>>
    /\ hist = NoHist

\* main, lines 175-178: the batch's file exists and is non-empty: continue
SkipBatch ==
    /\ prog = "split"
    /\ spc = "check"
    /\ start <= maxPages
    /\ fileExistsNonEmpty(OutFileName(start))
    /\ start' = start + batchSize
    /\ hist' = [hist EXCEPT !.reached = Append(@, <<start, EndOf(start)>>),
                            !.closed = @ \cup {start}]
    /\ UNCHANGED <<prog, fastVars, parseVars, run, v1Vars, detailVars, maxPages, batchSize, maxRetries, content, files, spc, fw,
                   batchItems, batchFailed, failedPages, totalSaved, log, failedUnique>>

\* variant: only the first page's call is started at dispatch
FirstAttempt_onlyFirst(p) ==
    IF p = start THEN [Idle EXCEPT !.phase = "inflight", !.attempt = 1] ELSE Idle

\* fetchWithRetries up to its first await: attempt++ and the request is sent
FirstAttempt(p) ==
    IF 0 < maxRetries
    THEN [Idle EXCEPT !.phase = "inflight", !.attempt = 1]
    ELSE [Idle EXCEPT !.phase = "done", !.error = -1]

\* main, lines 181-186: pages.map(p => fetchWithRetries(p)) starts every call
Dispatch ==
    /\ prog = "split"
    /\ spc = "check"
    /\ start <= maxPages
    /\ ~fileExistsNonEmpty(OutFileName(start))
    /\ fw' = [p \in DOMAIN fw |->
                IF p \in PagesOf(start) THEN FirstAttempt(p)
                ELSE IF fw[p].phase = "done" THEN Idle ELSE fw[p]]
    /\ spc' = "await"
    /\ batchItems' = <<>>
    /\ batchFailed' = <<>>
    /\ hist' = [hist EXCEPT !.reached = Append(@, <<start, EndOf(start)>>),
                            !.settled = <<>>]
    /\ UNCHANGED <<prog, fastVars, parseVars, run, v1Vars, detailVars, maxPages, batchSize, maxRetries, content, files, start,
                   failedPages, totalSaved, log, failedUnique>>

\* fetchWithRetries: the state after the attempt in flight has settled
AfterAttempt(w, ok) ==
    IF ok
    THEN [w EXCEPT !.phase = "done", !.success = TRUE, !.html = w.attempt, !.okAt = w.attempt]
    ELSE [w EXCEPT !.phase = "sleeping", !.lastErr = w.attempt]

\* variant: the loop condition is attempt <= maxRetries
AfterSleep_oneMore(w) ==
    IF w.attempt <= maxRetries
    THEN [w EXCEPT !.phase = "inflight", !.attempt = w.attempt + 1, !.slept = w.slept + 1]
    ELSE [w EXCEPT !.phase = "done", !.success = FALSE, !.slept = w.slept + 1,
                   !.error = IF w.lastErr # 0 THEN w.lastErr ELSE -1]

\* fetchWithRetries: the state after sleep(RETRY_DELAY_MS)
AfterSleep(w) ==
    IF w.attempt < maxRetries
    THEN [w EXCEPT !.phase = "inflight", !.attempt = w.attempt + 1, !.slept = w.slept + 1]
    ELSE [w EXCEPT !.phase = "done", !.success = FALSE, !.slept = w.slept + 1,
                   !.error = IF w.lastErr # 0 THEN w.lastErr ELSE -1]

\* fetchPageRaw settles: axios.get resolves or rejects
FetchSettles ==
    /\ prog \in {"split", "fast"}
    /\ \E p \in DOMAIN fw, ok \in BOOLEAN :
        /\ fw[p].phase = "inflight"
        /\ ok => content[p] # "down"
        /\ fw' = [fw EXCEPT ![p] = AfterAttempt(fw[p], ok)]
        /\ hist' = [hist EXCEPT !.settled = IF ok THEN Append(@, p) ELSE @]
    /\ UNCHANGED <<prog, fastVars, parseVars, run, v1Vars, detailVars, maxPages, batchSize, maxRetries, content, files, spc, start,
                   batchItems, batchFailed, failedPages, totalSaved, log, failedUnique>>

\* the retry delay of one call elapses: next attempt, or the failure value
RetryDelay ==
    /\ prog \in {"split", "fast"}
    /\ \E p \in DOMAIN fw :
        /\ fw[p].phase = "sleeping"
        /\ fw' = [fw EXCEPT ![p] = AfterSleep(fw[p])]
        /\ hist' = [hist EXCEPT !.fault =
                       @ \/ (fw'[p].phase = "done" /\ content[p] # "down"),
                                !.fetchFailed =
                       IF fw'[p].phase = "done" THEN @ \cup {p} ELSE @,
                                !.settled =
                       IF fw'[p].phase = "done" THEN Append(@, p) ELSE @]
    /\ UNCHANGED <<prog, fastVars, parseVars, run, v1Vars, detailVars, maxPages, batchSize, maxRetries, content, files, spc, start,
                   batchItems, batchFailed, failedPages, totalSaved, log, failedUnique>>

\* variant: the first call to return ends the wait
AllSettled_any(s) == \E p \in PagesOf(s) : fw[p].phase = "done"

\* variant: the calls are not awaited
AllSettled_none(s) == TRUE

\* Promise.all resolves only when every call has returned
AllSettled(s) == \A p \in PagesOf(s) : fw[p].phase = "done"

\* main, lines 186-211: after the barrier the results are merged and the write starts
Barrier ==
    /\ prog = "split"
    /\ spc = "await"
    /\ AllSettled(start)
    /\ batchItems' = MergeItems(start, EndOf(start))
    /\ batchFailed' = MergeFailed(start, EndOf(start))
    /\ spc' = "write"
    /\ UNCHANGED <<prog, fastVars, parseVars, run, v1Vars, detailVars, maxPages, batchSize, maxRetries, content, files, start, fw,
                   failedPages, totalSaved, log, failedUnique, hist>>

\* variant: nothing is written for a batch without items
writeBatchFile_skipEmpty(s, e, items) ==
    IF items = <<>> THEN files ELSE [files EXCEPT ![<<s, e>>] = Stringify(items)]

\* writeBatchFile: the file after fs.writeFile
writeBatchFile(s, e, items) == [files EXCEPT ![<<s, e>>] = Stringify(items)]

\* the outcomes of fs.writeFile: it throws only while no batch is lost, so that at
\* most one batch of a history is without its file because of a failed write
WriteOutcomes == IF hist.lost = {} THEN BOOLEAN ELSE {TRUE}

\* main, lines 210-224: the write ends (or throws), failures are recorded, the log line printed
WriteEnds ==
    /\ prog = "split"
    /\ spc = "write"
    /\ \E ok \in WriteOutcomes :
        LET failedNow == IF ok THEN batchFailed
                         ELSE AddWriteErrors(batchFailed, start, EndOf(start))
        IN  /\ files' = IF ok THEN writeBatchFile(start, EndOf(start), batchItems) ELSE files
            /\ totalSaved' = IF ok THEN totalSaved + Len(batchItems) ELSE totalSaved
            /\ batchFailed' = failedNow
            /\ failedPages' = failedPages \o PagesIn(failedNow)
            /\ log' = [start |-> start, end |-> EndOf(start),
                       saved |-> Len(batchItems), failed |-> Len(failedNow)]
            /\ hist' = [hist EXCEPT !.fault = @ \/ ~ok,
                                    !.wrote = IF ok THEN @ \cup {start} ELSE @,
                                    !.writeFailed = IF ok THEN @ ELSE @ \cup {start},
                                    !.lost = IF ok THEN @ \ {start} ELSE @ \cup {start},
                                    !.settled = <<>>]
    /\ spc' = "delay"
    /\ UNCHANGED <<prog, fastVars, parseVars, run, v1Vars, detailVars, maxPages, batchSize, maxRetries, content, start, fw, batchItems,
                   failedUnique>>

\* await sleep(BATCH_DELAY_MS), then start += BATCH_SIZE
BatchDelay ==
    /\ prog \in {"split", "fast"}
    /\ spc = "delay"
    /\ start' = start + batchSize
    /\ spc' = "check"
    /\ hist' = [hist EXCEPT !.closed = @ \cup {start}]
    /\ UNCHANGED <<prog, fastVars, parseVars, run, v1Vars, detailVars, maxPages, batchSize, maxRetries, content, files, fw,
                   batchItems, batchFailed, failedPages, totalSaved, log, failedUnique>>

\* Array.from(new Set(arr)): the first occurrence of each value, in order
ArrayFromSet(arr) ==
    LET firsts == {j \in DOMAIN arr : \A m \in 1..(j - 1) : arr[m] # arr[j]}
    IN  [k \in 1..Cardinality(firsts) |->
            arr[CHOOSE j \in firsts : Cardinality({m \in firsts : m < j}) = k - 1]]

\* variant: the report lists the pages in the order they were recorded
SortAscending_unsorted(arr) == arr

\* arr.sort((a, b) => a - b): place k holds the value x with fewer than k elements
\* below x and at least k elements not above x
SortAscending(arr) ==
    [k \in 1..Len(arr) |->
        CHOOSE x \in {arr[j] : j \in DOMAIN arr} :
            /\ Cardinality({j \in DOMAIN arr : arr[j] < x}) < k
            /\ k <= Cardinality({j \in DOMAIN arr : arr[j] <= x})]

\* the loop ends: the final report (lines 229-236)
Report ==
    /\ prog \in {"split", "fast"}
    /\ spc = "check"
    /\ start > maxPages
    /\ failedUnique' = SortAscending(ArrayFromSet(failedPages))
    /\ spc' = "done"
    /\ UNCHANGED <<prog, fastVars, parseVars, run, v1Vars, detailVars, maxPages, batchSize, maxRetries, content, files, start, fw,
                   batchItems, batchFailed, failedPages, totalSaved, log, hist>>

\* the process is killed (or has ended) and the script is started again:
\* only the files survive
SplitRestart ==
    /\ prog = "split"
    /\ run < MaxRuns
    /\ run' = run + 1
    /\ spc' = "check"
    /\ start' = 1
    /\ fw' = [p \in DOMAIN fw |-> Idle]
    /\ batchItems' = <<>>
    /\ batchFailed' = <<>>
    /\ failedPages' = <<>>
    /\ totalSaved' = 0
    /\ log' = NoLog
    /\ failedUnique' = <<>>
    /\ hist' = [reached |-> <<>>, closed |-> {}, wrote |-> {}, fault |-> hist.fault,
                killedMidBatch |-> hist.killedMidBatch \/ spc \in {"await", "write"},
                fetchFailed |-> {}, writeFailed |-> {}, lost |-> hist.lost, settled |-> <<>>]
    /\ UNCHANGED <<prog, fastVars, parseVars, v1Vars, maxPages, batchSize, maxRetries, content, files, detailVars>>

vars == <<prog, run, detailVars, splitVars, v1Vars, fastVars, parseVars>>

\* the variables of a script that is not running
DetailIdle ==
    /\ variant = "single"
    /\ input = <<>>
    /\ redirect = [p \in Paths |-> p]
    /\ outFile = Missing
    /\ dpc = "off"
    /\ i = 0
    /\ outputArr = <<>>
    /\ cur = NoObj
    /\ retries = 0
    /\ dInflight = 0
    /\ ioFailed = FALSE
    /\ dhist = [requested |-> {}, inputRead |-> "no", errorSaved |-> {}]

SplitIdle ==
    /\ maxPages = 0
    /\ batchSize = 1
    /\ maxRetries = 1
    /\ content = <<>>
    /\ files = [n \in AllNames |-> Missing]
    /\ spc = "off"
    /\ start = 0
    /\ fw = [p \in 1..(MaxPagesBound + MaxBatchBound) |-> Idle]
    /\ batchItems = <<>>
    /\ batchFailed = <<>>
    /\ failedPages = <<>>
    /\ totalSaved = 0
    /\ log = NoLog
    /\ failedUnique = <<>>
    /\ hist = NoHist

\* a call of the async function of a page that has not been made
NotCalled == [phase |-> "idle", entries |-> <<>>]

V1Idle ==
    /\ vMaxPages = 0
    /\ vConcurrency = 1
    /\ vContent = <<>>
    /\ vpc = "off"
    /\ vPage = 0
    /\ results = <<>>
    /\ all = <<>>
    /\ consecutiveEmptyBatches = 0
    /\ vOutFile = Missing
    /\ vhist = <<>>

\* the history of the fast scraper at its first start
NoFastHist == [extracted |-> <<>>, ioFailed |-> FALSE, writeFailed |-> FALSE]

FastIdle == fOutFile = Missing /\ fhist = NoFastHist

ParseIdle == fn = "off" /\ arg = <<>> /\ ret = <<>>

InitDetail == prog = "detail" /\ run = 1 /\ DetailInit /\ SplitIdle /\ V1Idle /\ FastIdle /\ ParseIdle

InitSplit == prog = "split" /\ run = 1 /\ SplitInit /\ DetailIdle /\ V1Idle /\ FastIdle /\ ParseIdle

\* one run of either script
InitRuns == InitDetail \/ InitSplit

DetailNext ==
    \/ readJsonFileOrDie
    \/ ensureOutputFile
    \/ LoopHead
    \/ NoUrlMirror
    \/ fetchHtml
    \/ fetchHtmlRetry
    \/ appendToOutput
    \/ appendErrObj
    \/ MirrorPush
    \/ RequestDelay
    \/ DetailRestart

SplitNext ==
    \/ SkipBatch
    \/ Dispatch
    \/ FetchSettles
    \/ RetryDelay
    \/ Barrier
    \/ WriteEnds
    \/ BatchDelay
    \/ Report
    \/ SplitRestart

\* one run of either script, without restart; started without batch files,
\* the page-batch scraper has no batch to skip
RunsNext ==
    \/ readJsonFileOrDie
    \/ ensureOutputFile
    \/ LoopHead
    \/ NoUrlMirror
    \/ fetchHtml
    \/ fetchHtmlRetry
    \/ appendToOutput
    \/ appendErrObj
    \/ MirrorPush
    \/ RequestDelay
    \/ Dispatch
    \/ FetchSettles
    \/ RetryDelay
    \/ Barrier
    \/ WriteEnds
    \/ BatchDelay
    \/ Report

SpecDetail == InitDetail /\ [][DetailNext]_vars

SpecSplit == InitSplit /\ [][SplitNext]_vars

SpecRuns == InitRuns /\ [][RunsNext]_vars

----------------------------------------------------------------------------
(* Properties of the per-item detail fetcher *)

\* the persisted records that stem from input item k
RecordsOfItem(k) == {j \in DOMAIN Records(outFile) : Records(outFile)[j].input_index = k}

\* input item k, or an item asking for the same normalized url, has a record
HasRecord(k) ==
    \/ RecordsOfItem(k) # {}
    \/ /\ SourceUrlOf(input[k]) # NoUrl
       /\ \E j \in DOMAIN Records(outFile) :
             SourceUrlOf(Records(outFile)[j].item) = SourceUrlOf(input[k])

\* C1: after a kill at any point, a re-run from the start ends with at most one
\* record per input item and issues fetches only for items without a record,
\* beginning at the first such item (stated for histories without file errors).
C1_ResumeWithoutDuplicates ==
    (prog = "detail" /\ run > 1 /\ ~ioFailed) =>
        /\ dpc = "fetch" => ~HasRecord(i)
        /\ dpc = "fetch" => \A k \in 1..(i - 1) : HasRecord(k)
        /\ dpc = "done" => \A k \in DOMAIN input : Cardinality(RecordsOfItem(k)) <= 1

\* C2: no two persisted records have the same (non-null) source_url.
C2_UniqueSourceUrl ==
    \A j, k \in DOMAIN Records(outFile) :
        (j # k /\ Records(outFile)[j].source_url # NoUrl)
            => Records(outFile)[j].source_url # Records(outFile)[k].source_url

----------------------------------------------------------------------------
(* Properties of the page-batch scraper *)

\* the first pages of the batches of [1..maxPages]
BatchStarts == {s \in 1..maxPages : (s - 1) % batchSize = 0}

\* the last page of the batch that begins at s, from the configuration alone
LastPage(s) == IF s + batchSize - 1 < maxPages THEN s + batchSize - 1 ELSE maxPages

\* the records of page p as a reader of the site expects them in a batch file
RECURSIVE SiteRecords(_, _)
SiteRecords(p, e) ==
    IF p > e THEN <<>>
    ELSE (IF content[p] = "two"
          THEN <<[entry |-> [page |-> p, pos |-> 1], source_page |-> p],
                 [entry |-> [page |-> p, pos |-> 2], source_page |-> p]>>
          ELSE <<>>) \o SiteRecords(p + 1, e)

\* the batch files one uninterrupted run leaves when no page that is up runs out
\* of retries and no write fails
UninterruptedFiles ==
    [n \in AllNames |->
        IF n[1] \in BatchStarts /\ n[2] = LastPage(n[1])
        THEN <<"[">> \o SiteRecords(n[1], n[2]) \o <<"]">>
        ELSE Missing]

\* C3: with fixed page contents, a complete run (the first one, or one started
\* after earlier runs were killed at any point) leaves exactly the batch files of
\* one uninterrupted run: no record duplicated, none lost.
C3_ResumeSameFiles ==
    (prog = "split" /\ spc = "done" /\ ~hist.fault) => files = UninterruptedFiles

\* a second run has completed after the first was killed mid-batch; it skipped
\* files of the first run and wrote files of its own
C3_Witness ==
    /\ prog = "split" /\ spc = "done" /\ run = 2 /\ ~hist.fault
    /\ hist.killedMidBatch
    /\ totalSaved > 0
    /\ \E s \in BatchStarts : s \notin hist.wrote /\ Len(files[<<s, LastPage(s)>>]) > 2

\* the file of the batch that begins at `start` exists with size > 0
BatchFilePresent ==
    LET txt == files[<<start, LastPage(start)>>]
    IN  txt # Missing /\ Len(txt) > 0

\* C4: a batch is skipped iff its file exists with size > 0 when it is reached;
\* a skipped batch issues no fetch and leaves its file, the saved total and the
\* failed list unchanged.
C4_SkipIffFilePresent ==
    [][ (prog = "split" /\ spc = "check" /\ start <= maxPages /\ run' = run) =>
          IF BatchFilePresent
          THEN /\ start' = start + batchSize
               /\ spc' = "check"
               /\ files' = files
               /\ totalSaved' = totalSaved
               /\ failedPages' = failedPages
               /\ \A p \in DOMAIN fw : fw'[p].phase # "inflight"
          ELSE /\ start' = start
               /\ spc' = "await"
               /\ \A p \in start..LastPage(start) : fw'[p].phase = "inflight"
      ]_vars

\* a later run has just skipped its first batch, whose file holds records
C4_Witness ==
    /\ prog = "split" /\ run = 2 /\ spc = "check"
    /\ start = 1 + batchSize
    /\ hist.reached = <<<<1, LastPage(1)>>>>
    /\ 1 \in hist.closed
    /\ Len(files[<<1, LastPage(1)>>]) > 2
    /\ totalSaved = 0

\* C5: the enumerated ranges partition [1..MAX_PAGES] into contiguous ascending
\* batches of BATCH_SIZE pages, the last possibly shorter and ending at MAX_PAGES,
\* and no page outside [1..MAX_PAGES] is fetched.
C5_BatchesPartition ==
    prog = "split" =>
        LET r == hist.reached IN
        /\ \A k \in DOMAIN r :
            /\ r[k][1] = IF k = 1 THEN 1 ELSE r[k - 1][2] + 1
            /\ r[k][1] <= r[k][2]
            /\ r[k][2] <= maxPages
            /\ \/ r[k][2] - r[k][1] + 1 = batchSize
               \/ r[k][2] = maxPages /\ r[k][2] - r[k][1] + 1 < batchSize
        /\ spc = "done" => (Len(r) >= 1 /\ r[Len(r)][2] = maxPages)
        /\ \A p \in DOMAIN fw : fw[p].phase # "idle" => (1 <= p /\ p <= maxPages)

\* a run has ended whose last batch is shorter than the others
C5_Witness ==
    /\ prog = "split" /\ spc = "done"
    /\ Len(hist.reached) = 2
    /\ hist.reached[1] = <<1, 2>>
    /\ hist.reached[2] = <<3, 3>>

\* C6: fetchWithRetries never makes more than maxRetries attempts, attempts are
\* made one at a time with the retry delay between consecutive attempts, a success
\* value carries the html of the first successful attempt and no attempt follows
\* it, and a failure value is returned after exactly maxRetries failed attempts
\* with the message of the last attempt's error.
C6_FetchWithRetries ==
    prog = "split" =>
        \A p \in DOMAIN fw :
            LET w == fw[p] IN
            /\ w.attempt <= maxRetries
            /\ w.phase = "inflight" => (w.slept = w.attempt - 1 /\ w.lastErr = w.attempt - 1)
            /\ w.phase = "sleeping" => (w.slept = w.attempt - 1 /\ w.lastErr = w.attempt)
            /\ (w.phase = "done" /\ w.success) =>
                  /\ w.html = w.okAt
                  /\ w.okAt = w.attempt
                  /\ w.lastErr = w.attempt - 1
                  /\ w.slept = w.attempt - 1
            /\ (w.phase = "done" /\ ~w.success) =>
                  /\ w.attempt = maxRetries
                  /\ w.lastErr = maxRetries
                  /\ w.error = maxRetries
                  /\ w.slept = maxRetries

\* one call has succeeded at its second attempt, another has failed for good
C6_Witness ==
    /\ prog = "split"
    /\ \E p, q \in DOMAIN fw :
        /\ fw[p].phase = "done" /\ fw[p].success /\ fw[p].attempt = 2
        /\ fw[q].phase = "done" /\ ~fw[q].success /\ fw[q].error = 2

\* the calls of the current batch that have not returned yet
Active == {p \in DOMAIN fw : fw[p].phase \in {"inflight", "sleeping"}}

\* C7: within a batch every page's fetch is started before any result is awaited;
\* extraction and the batch write begin only after every fetch of the batch has
\* completed, and a file changes only in the scheduler's write step after that
\* barrier (so no two writes are in progress at once).
C7_FanOutFanIn ==
    /\ [](prog = "split" =>
            /\ spc = "await" =>
                  \A p \in start..LastPage(start) : fw[p].attempt >= 1
            /\ spc = "write" =>
                  /\ Active = {}
                  /\ \A p \in start..LastPage(start) : fw[p].phase = "done")
    /\ [][ (prog = "split" /\ files' # files) =>
              /\ spc = "write" /\ spc' = "delay"
              /\ Active = {}
              /\ \A p \in start..LastPage(start) : fw[p].phase = "done"
              /\ \A n \in AllNames :
                    files'[n] # files[n] => n = <<start, LastPage(start)>>
         ]_vars

\* a batch of two pages is being written: one fetch failed after its retries,
\* the other succeeded
C7_Witness ==
    /\ prog = "split" /\ spc = "write"
    /\ LastPage(start) = start + 1
    /\ ~fw[start].success /\ fw[start + 1].success
    /\ Len(batchItems) = 2

\* the batch that page p belongs to
BatchOf(p) == p - ((p - 1) % batchSize)

\* C8: batches are processed one after another: while a fetch of a batch is
\* running, no fetch of another batch is running and every earlier batch has been
\* skipped or has had its fetches completed, its write ended and its delay elapsed.
C8_BatchesSequential ==
    prog = "split" =>
        \A p \in Active :
            /\ BatchOf(p) = start
            /\ \A q \in Active : BatchOf(q) = BatchOf(p)
            /\ \A b \in BatchStarts : b < BatchOf(p) => b \in hist.closed

\* a fetch of the second batch is running after the first batch was fetched,
\* written and delayed in this run
C8_Witness ==
    /\ prog = "split" /\ spc = "await"
    /\ start > 1
    /\ Active # {}
    /\ 1 \in hist.wrote
    /\ 1 \in hist.closed

\* C9: at most BATCH_SIZE requests are in flight in the page-batch scraper and at
\* most one in the per-item detail fetcher, also while a detail fetch is retried.
C9_BoundedInFlight ==
    /\ prog = "split" =>
          Cardinality({p \in DOMAIN fw : fw[p].phase = "inflight"}) <= batchSize
    /\ prog = "detail" => dInflight <= 1

\* all requests of a full batch are in flight
C9_Witness ==
    /\ prog = "split"
    /\ batchSize = 2
    /\ Cardinality({p \in DOMAIN fw : fw[p].phase = "inflight"}) = 2

\* the pages of the current batch whose fetch and parse succeeded
GoodPages == {p \in start..LastPage(start) : fw[p].success /\ content[p] # "bad"}

\* C10: after a successful write of a non-skipped batch, the batch file holds
\* exactly the records of the pages of the batch whose fetch and parse succeeded,
\* each tagged with the page it was extracted from, and the log line reports that
\* record count as saved and the number of failed pages as failed.
C10_BatchFileContents ==
    (prog = "split" /\ spc = "delay" /\ start \in hist.wrote) =>
        LET txt == files[<<start, LastPage(start)>>]
            recs == SubSeq(txt, 2, Len(txt) - 1)
        IN  /\ txt # Missing
            /\ Len(txt) >= 2 /\ txt[1] = "[" /\ txt[Len(txt)] = "]"
            /\ \A k \in DOMAIN recs :
                  /\ recs[k].entry.page \in GoodPages
                  /\ recs[k].source_page = recs[k].entry.page
            /\ \A p \in GoodPages :
                  \A pos \in (IF content[p] = "two" THEN {1, 2} ELSE {}) :
                     Cardinality({k \in DOMAIN recs :
                                     recs[k].entry = [page |-> p, pos |-> pos]}) = 1
            /\ Len(recs) = 2 * Cardinality(GoodPages)
            /\ log.start = start /\ log.end = LastPage(start)
            /\ log.saved = Len(recs)
            /\ log.failed = Cardinality((start..LastPage(start)) \ GoodPages)

\* a batch of two pages has been written with the records of the page that
\* succeeded while the other page failed after its retries
C10_Witness ==
    /\ prog = "split" /\ spc = "delay" /\ start \in hist.wrote
    /\ LastPage(start) = start + 1
    /\ fw[start].success /\ ~fw[start + 1].success
    /\ log.saved = 2 /\ log.failed = 1

\* the batches dispatched (not skipped) in this run whose write step has ended
Handled == hist.wrote \cup hist.writeFailed

\* the pages of this run that failed to parse: fetched in a handled batch, and the
\* parser throws on them
ParseFailedPages ==
    {p \in 1..maxPages : BatchOf(p) \in Handled /\ p \notin hist.fetchFailed /\ content[p] = "bad"}

\* the pages of the batches whose write failed in this run
WriteFailedPages == {p \in 1..maxPages : BatchOf(p) \in hist.writeFailed}

\* the pages whose records were saved in this run
SavedPages ==
    {p \in 1..maxPages : BatchOf(p) \in hist.wrote /\ p \notin hist.fetchFailed /\ content[p] = "two"}

\* C11: at the end of a run the reported failed-page list holds exactly the pages
\* that in this run failed to fetch after retries, failed to parse, or belonged to
\* a batch whose write failed: each once, in ascending numeric order, and no page
\* whose records were saved.
C11_ReportedFailedPages ==
    (prog = "split" /\ spc = "done") =>
        /\ \A k \in 1..(Len(failedUnique) - 1) : failedUnique[k] < failedUnique[k + 1]
        /\ {failedUnique[k] : k \in DOMAIN failedUnique}
              = hist.fetchFailed \cup ParseFailedPages \cup WriteFailedPages
        /\ \A k \in DOMAIN failedUnique : failedUnique[k] \notin SavedPages

\* a run has ended in which the failures were recorded out of page order (a fetch
\* failure of a later page, then the write error of an earlier one) and another
\* batch was saved
C11_Witness ==
    /\ prog = "split" /\ spc = "done"
    /\ Len(failedUnique) >= 2
    /\ failedUnique # failedPages
    /\ hist.writeFailed # {} /\ hist.fetchFailed # {}
    /\ SavedPages # {}

----------------------------------------------------------------------------
(* One run of the page-batch scraper under fair scheduling *)

\* a start in an OUT_DIR where earlier runs have left the files of some batches
SplitResumedInit ==
    /\ maxPages \in 1..MaxPagesBound
    /\ batchSize \in 1..MaxBatchBound
    /\ maxRetries \in 1..MaxRetriesBound
    /\ content \in Contents(maxPages)
    /\ \E kept \in SUBSET BatchStarts :
         files = [n \in AllNames |-> IF n[1] \in kept THEN UninterruptedFiles[n] ELSE Missing]
    /\ spc = "check"
    /\ start = 1
    /\ fw = [p \in 1..(MaxPagesBound + MaxBatchBound) |-> Idle]
    /\ batchItems = <<>>
    /\ batchFailed = <<>>
    /\ failedPages = <<>>
    /\ totalSaved = 0
    /\ log = NoLog
    /\ failedUnique = <<>>
    /\ hist = NoHist

InitSplitResumed ==
    prog = "split" /\ run = 1 /\ SplitResumedInit /\ DetailIdle /\ V1Idle /\ FastIdle /\ ParseIdle

\* the steps of one run: every await of main() and of fetchWithRetries
SplitRunNext ==
    \/ SkipBatch
    \/ Dispatch
    \/ FetchSettles
    \/ RetryDelay
    \/ Barrier
    \/ WriteEnds
    \/ BatchDelay
    \/ Report

\* Every awaited operation settles: a request resolves or rejects within its
\* timeout of 20 s, a sleep elapses, a file operation returns or throws; the event
\* loop then resumes the awaiting function.
SpecSplitFair == InitSplitResumed /\ [][SplitRunNext]_vars /\ WF_vars(SplitRunNext)

\* the ranges of all batches of [1..maxPages], ascending
AllRanges ==
    [k \in 1..Cardinality(BatchStarts) |->
        <<1 + (k - 1) * batchSize, LastPage(1 + (k - 1) * batchSize)>>]

\* every fetch of the current batch failed after its retries
AllFetchesFailed == \A p \in start..LastPage(start) : p \in hist.fetchFailed

\* the run reaches the final report, having visited every batch in ascending order
RunReachesReport ==
    /\ <>(spc = "done")
    /\ [](spc = "done" => hist.reached = AllRanges)
    /\ [](\A k \in 1..(Len(hist.reached) - 1) : hist.reached[k][1] < hist.reached[k + 1][1])

\* C12 as stated: no fetch, parse or write failure stops a run: under fair
\* scheduling the run reaches the final report after visiting every batch of
\* [1..MAX_PAGES] in ascending order, and a non-skipped batch all of whose fetches
\* failed has its output file, holding an empty array, before the run moves to
\* the next batch.
C12_NeverFatal_AsStated ==
    /\ RunReachesReport
    /\ []((spc = "delay" /\ AllFetchesFailed)
             => files[<<start, LastPage(start)>>] = <<"[", "]">>)

\* C12 (amended): as above, where the batch all of whose fetches failed has its
\* output file holding an empty array unless the write of that file failed too; in
\* that case the batch has no file with content and the run moves on all the same.
C12_NeverFatal ==
    /\ RunReachesReport
    /\ []((spc = "delay" /\ AllFetchesFailed) =>
             IF start \in hist.writeFailed
             THEN ~BatchFilePresent
             ELSE files[<<start, LastPage(start)>>] = <<"[", "]">>)
    /\ [][(spc = "delay") => (spc' = "check" /\ start' = start + batchSize)]_vars

\* a run has reached the final report after a batch all of whose fetches failed
\* was written as an empty array and a later batch was handled
C12_Witness ==
    /\ prog = "split" /\ spc = "done"
    /\ \E s \in hist.wrote :
          /\ files[<<s, LastPage(s)>>] = <<"[", "]">>
          /\ \A p \in s..LastPage(s) : p \in hist.fetchFailed
          /\ s + batchSize <= maxPages
    /\ Len(hist.reached) >= 2

----------------------------------------------------------------------------
(* Failures of the page-batch scraper *)

\* the number of entries of the failed list `failed` that name page p
TimesFailed(failed, p) == Cardinality({k \in DOMAIN failed : failed[k].page = p})

\* the number of times page p is in the array of page numbers arr
TimesIn(arr, p) == Cardinality({k \in DOMAIN arr : arr[k] = p})

\* C13: when writing a batch's output fails, the error is caught, every page of
\* the batch is in the failed list exactly once (a page already recorded as a
\* fetch or parse failure keeps its entry and gets no second one), the saved total
\* is not increased, the run continues with the next batch, and a later run
\* fetches the pages of that batch again.
C13_WriteFailure ==
    /\ [][ (prog = "split" /\ spc = "write" /\ run' = run /\ start \in hist'.writeFailed) =>
              /\ spc' = "delay" /\ start' = start
              /\ files' = files
              /\ totalSaved' = totalSaved
              /\ SubSeq(batchFailed', 1, Len(batchFailed)) = batchFailed
              /\ \A k \in (Len(batchFailed) + 1)..Len(batchFailed') :
                    batchFailed'[k].error.prefix = "write_error: "
              /\ \A p \in start..LastPage(start) :
                    /\ TimesFailed(batchFailed', p) = 1
                    /\ TimesIn(failedPages', p) = 1
              /\ Len(failedPages') = Len(failedPages) + (LastPage(start) - start + 1)
         ]_vars
    /\ [][ (prog = "split" /\ spc = "delay" /\ run' = run) =>
              (spc' = "check" /\ start' = start + batchSize) ]_vars
    /\ [](prog = "split" =>
            \A s \in hist.lost :
                files[<<s, LastPage(s)>>] = Missing \/ files[<<s, LastPage(s)>>] = <<>>)
    /\ [][ (prog = "split" /\ spc = "check" /\ start \in hist.lost /\ run' = run) =>
              /\ spc' = "await"
              /\ \A p \in start..LastPage(start) : fw'[p].phase = "inflight"
         ]_vars

\* a later run is fetching both pages of a batch whose write failed in an earlier
\* run
C13_Witness ==
    /\ prog = "split" /\ run = 2 /\ spc = "await"
    /\ start \in hist.lost
    /\ \A p \in start..LastPage(start) : fw[p].phase = "inflight"
    /\ LastPage(start) = start + 1

\* the pages of the current batch that were fetched and on which the parser throws
ThrowingPages == {p \in start..LastPage(start) : fw[p].success /\ content[p] = "bad"}

\* the records of page p among the items `items`
RecordsOfPage(items, p) ==
    {k \in DOMAIN items : items[k].source_page = p \/ items[k].entry.page = p}

\* C14: when the extractor throws for a successfully fetched page, the page is
\* recorded as failed with reason 'parse_error: ' followed by the exception's
\* message, no record of the page is saved, the records of the other successfully
\* parsed pages of the batch are still written, and the run continues.
C14_ParseError ==
    /\ [](prog = "split" /\ spc \in {"write", "delay"} =>
            /\ \A p \in ThrowingPages :
                /\ \E k \in DOMAIN batchFailed :
                      /\ batchFailed[k].page = p
                      /\ batchFailed[k].error.prefix = "parse_error: "
                      /\ batchFailed[k].error.message = [src |-> "parse", n |-> p]
                /\ TimesFailed(batchFailed, p) = 1
                /\ RecordsOfPage(batchItems, p) = {}
                /\ (spc = "delay" /\ start \in hist.wrote) =>
                      /\ RecordsOfPage(ParseArray(files[<<start, LastPage(start)>>]), p) = {}
                      /\ TimesIn(failedPages, p) = 1
            /\ \A q \in GoodPages :
                /\ Cardinality(RecordsOfPage(batchItems, q)) = 2
                /\ (spc = "delay" /\ start \in hist.wrote) =>
                      Cardinality(RecordsOfPage(ParseArray(files[<<start, LastPage(start)>>]), q)) = 2)
    /\ [][ (prog = "split" /\ spc = "await" /\ spc' # spc /\ run' = run) =>
              (spc' = "write" /\ start' = start) ]_vars
    /\ [][ (prog = "split" /\ spc = "write" /\ run' = run) => spc' = "delay" ]_vars
    /\ [][ (prog = "split" /\ spc = "delay" /\ run' = run) =>
              (spc' = "check" /\ start' = start + batchSize) ]_vars

\* a batch was written with the records of one page while the parser threw on the
\* page before it, and the run has started the next batch
C14_Witness ==
    /\ prog = "split" /\ spc = "await" /\ start = 3
    /\ 1 \in hist.wrote
    /\ content[1] = "bad" /\ content[2] = "two"
    /\ 1 \notin hist.fetchFailed
    /\ failedPages = <<1>>
    /\ Len(files[<<1, 2>>]) = 4

----------------------------------------------------------------------------
(* Persistence of the per-item detail fetcher *)

\* the items requested in this run that have no record in the output file
Unrecorded == {k \in dhist.requested : RecordsOfItem(k) = {}}

\* items are requested one at a time, in input order
OneAtATimeInOrder ==
    /\ dInflight <= 1
    /\ \A k \in dhist.requested : k <= i
    /\ dpc \in {"fetch", "retrywait"} => i \in dhist.requested

AbsoluteUrl(k) == [form |-> "abs", path |-> input[k].path]

\* the item reached has a url, and a record of the mirror carries that url in
\* its absolute form
ReachedRecordedItem ==
    /\ dpc = "loop" /\ i <= Len(input)
    /\ input[i].form # "none"
    /\ \E k \in DOMAIN outputArr : outputArr[k].source_url = AbsoluteUrl(i)

\* C16: when an item is reached whose normalized source_url equals the source_url
\* of a record already in the store (loaded at startup or appended earlier in the
\* same run), no fetch is issued for it, no delay is taken, and the output file
\* and the in-memory mirror are left unchanged.
C16_SkipFrame ==
    [][ (prog = "detail" /\ ReachedRecordedItem /\ run' = run) =>
            /\ i' = i + 1
            /\ dpc' = "loop"
            /\ dInflight' = 0
            /\ dhist'.requested = dhist.requested
            /\ outFile' = outFile
            /\ outputArr' = outputArr
      ]_vars

\* the second item, spelled differently from the first, was passed over without
\* a request because of the record appended for the first item in the same run
C16_Witness ==
    /\ prog = "detail" /\ run = 1
    /\ dpc = "loop" /\ i = 3
    /\ input[1] # input[2]
    /\ input[2].form # "none"
    /\ dhist.requested = {1}
    /\ Len(outputArr) = 1
    /\ outputArr[1].source_url = AbsoluteUrl(2)

\* the record in hand is the error record of the current item
ErrorRecordInHand ==
    /\ cur.kind = "error"
    /\ cur.item = input[i]
    /\ cur.source_url = (IF input[i].form = "none" THEN NoUrl ELSE AbsoluteUrl(i))
    /\ cur.error \in {"Fetch failed", "parse", "write"}

InputReadFailed == prog = "detail" /\ variant = "single" /\ dhist.inputRead = "failed"

\* C18: when the input list cannot be read or parsed at startup, the per-item
\* detail fetcher aborts immediately: no fetch is issued and the output file is
\* neither created nor modified.
C18_InputReadAbort ==
    /\ [][ (prog = "detail" /\ variant = "single" /\ dpc = "start" /\ run' = run
               /\ dhist'.inputRead = "failed") =>
              /\ dpc' = "exit"
              /\ outFile' = outFile
              /\ dInflight' = 0
         ]_vars
    /\ [](InputReadFailed =>
              /\ dpc = "exit"
              /\ dInflight = 0
              /\ dhist.requested = {}
              /\ outputArr = <<>>)
    /\ [][ (InputReadFailed /\ run' = run) => UNCHANGED <<dpc, outFile, dInflight>> ]_vars

\* a second run has aborted on its input; the output file holds the record the
\* first run wrote
C18_Witness ==
    /\ InputReadFailed /\ dpc = "exit"
    /\ run = 2
    /\ Len(Records(outFile)) = 1

\* C19: the per-item output store is append-only: every step of a run leaves the
\* previously persisted records present, unchanged and in the same order, and an
\* append adds exactly the new record at the end; neither the initialisation of
\* the output file at startup nor an append made when reading or parsing the
\* current file fails removes or rewrites a previously persisted record.
C19_AppendOnly ==
    [][ prog = "detail" =>
          /\ Len(Records(outFile')) >= Len(Records(outFile))
          /\ Len(Records(outFile')) <= Len(Records(outFile)) + 1
          /\ SubSeq(Records(outFile'), 1, Len(Records(outFile))) = Records(outFile)
      ]_vars

----------------------------------------------------------------------------
(* The v1 scraper: all pages into one file, with the heuristic stop *)

MaxPagesV1 == 6
MaxConcurrency == 2

\* main: if (consecutiveEmptyBatches >= 4)
EmptyBatchLimit == 4

\* a page is served with one listing entry, served without any, or not served
V1PageKinds == {"brand", "empty", "down"}

\* main: the pages of the batch that begins at `first`
V1PagesOf(first) == {q \in first..(first + vConcurrency - 1) : q <= vMaxPages}

\* parsePageByStructure: the entries of a page, in document order
V1EntriesOf(q) ==
    IF vContent[q] = "brand"
    THEN <<[name |-> (IF q % 3 = 1 THEN "Ace" ELSE IF q % 3 = 2 THEN "ACE" ELSE "Bex"),
            company |-> "Acme", page |-> q]>>
    ELSE <<>>

\* String.prototype.toLowerCase on the names and companies of the site
LowerCase(str) ==
    IF str \in {"Ace", "ACE"} THEN "ace"
    ELSE IF str = "Bex" THEN "bex"
    ELSE IF str = "Acme" THEN "acme"
    ELSE str

\* main: the key ((e.name || "") + "||" + (e.company || "")).toLowerCase().trim()
DedupeKey(e) == <<LowerCase(e.name), "||", LowerCase(e.company)>>

\* main: the Map keeps the first entry of each key, in insertion order
DedupeByKey(arr) ==
    LET firsts == {j \in DOMAIN arr : \A m \in 1..(j - 1) : DedupeKey(arr[m]) # DedupeKey(arr[j])}
    IN  [k \in 1..Cardinality(firsts) |->
            arr[CHOOSE j \in firsts : Cardinality({m \in firsts : m < j}) = k - 1]]

\* main: the entries of the results, in page order
RECURSIVE V1Merge(_, _)
V1Merge(q, last) ==
    IF q > last THEN <<>>
    ELSE results[q].entries \o V1Merge(q + 1, last)

\* variant: the counter is not reset by a batch that yields entries
NextCounter_noReset(anyFound, counter) == IF anyFound THEN counter ELSE counter + 1

\* main: if (!anyFound) consecutiveEmptyBatches += 1; else consecutiveEmptyBatches = 0
NextCounter(anyFound, counter) == IF anyFound THEN 0 ELSE counter + 1

V1Init ==
    /\ vMaxPages \in 1..MaxPagesV1
    /\ vConcurrency \in 1..MaxConcurrency
    /\ vContent \in [1..vMaxPages -> V1PageKinds]
    /\ vpc = "head"
    /\ vPage = 1
    /\ results = [q \in 1..(MaxPagesV1 + MaxConcurrency) |-> NotCalled]
    /\ all = <<>>
    /\ consecutiveEmptyBatches = 0
    /\ vOutFile = Missing
    /\ vhist = <<>>

InitV1 == prog = "v1" /\ run = 1 /\ V1Init /\ DetailIdle /\ SplitIdle /\ FastIdle /\ ParseIdle

\* main, lines 174-192: the async function of every page of the batch is called
\* and runs up to its first await, sleep(REQUEST_DELAY_MS * idx)
V1Dispatch ==
    /\ prog = "v1"
    /\ vpc = "head"
    /\ vPage <= vMaxPages
    /\ results' = [q \in DOMAIN results |->
                     IF q \in V1PagesOf(vPage) THEN [phase |-> "sleeping", entries |-> <<>>]
                     ELSE results[q]]
    /\ vpc' = "await"
    /\ UNCHANGED <<prog, fastVars, parseVars, run, detailVars, splitVars, vMaxPages, vConcurrency, vContent, vPage, all,
                   consecutiveEmptyBatches, vOutFile, vhist>>

\* the staggering sleep of one page elapses (the timers fire in the order of
\* their delays) and fetchPage sends the request
V1Stagger ==
    /\ prog = "v1"
    /\ \E q \in DOMAIN results :
        /\ results[q].phase = "sleeping"
        /\ \A r \in DOMAIN results : r < q => results[r].phase # "sleeping"
        /\ results' = [results EXCEPT ![q].phase = "inflight"]
    /\ UNCHANGED <<prog, fastVars, parseVars, run, detailVars, splitVars, vMaxPages, vConcurrency, vContent, vpc, vPage, all,
                   consecutiveEmptyBatches, vOutFile, vhist>>

\* fetchPage settles: null when the request fails, else the page is parsed
V1FetchSettles ==
    /\ prog = "v1"
    /\ \E q \in DOMAIN results, ok \in BOOLEAN :
        /\ results[q].phase = "inflight"
        /\ ok => vContent[q] # "down"
        /\ results' = [results EXCEPT ![q] =
                         [phase |-> IF ok THEN "parsed" ELSE "failed",
                          entries |-> IF ok THEN V1EntriesOf(q) ELSE <<>>]]
    /\ UNCHANGED <<prog, fastVars, parseVars, run, detailVars, splitVars, vMaxPages, vConcurrency, vContent, vpc, vPage, all,
                   consecutiveEmptyBatches, vOutFile, vhist>>

\* main, lines 192-216: after Promise.all the entries are collected, the counter
\* is updated and the heuristic stop is decided
V1Barrier ==
    /\ prog = "v1"
    /\ vpc = "await"
    /\ \A q \in V1PagesOf(vPage) : results[q].phase \in {"parsed", "failed"}
    /\ LET anyFound == \E q \in V1PagesOf(vPage) : Len(results[q].entries) > 0
           counter == NextCounter(anyFound, consecutiveEmptyBatches)
       IN  /\ all' = all \o V1Merge(vPage, vPage + vConcurrency - 1)
           /\ consecutiveEmptyBatches' = counter
           /\ vpc' = IF counter >= EmptyBatchLimit THEN "final" ELSE "delay"
    /\ vhist' = Append(vhist, vPage)
    /\ UNCHANGED <<prog, fastVars, parseVars, run, detailVars, splitVars, vMaxPages, vConcurrency, vContent, vPage, results,
                   vOutFile>>

\* await sleep(REQUEST_DELAY_MS), then page += CONCURRENCY
V1Delay ==
    /\ prog = "v1"
    /\ vpc = "delay"
    /\ vPage' = vPage + vConcurrency
    /\ vpc' = "head"
    /\ UNCHANGED <<prog, fastVars, parseVars, run, detailVars, splitVars, vMaxPages, vConcurrency, vContent, results, all,
                   consecutiveEmptyBatches, vOutFile, vhist>>

\* the loop condition page <= MAX_PAGES fails
V1LoopEnd ==
    /\ prog = "v1"
    /\ vpc = "head"
    /\ vPage > vMaxPages
    /\ vpc' = "final"
    /\ UNCHANGED <<prog, fastVars, parseVars, run, detailVars, splitVars, vMaxPages, vConcurrency, vContent, vPage, results, all,
                   consecutiveEmptyBatches, vOutFile, vhist>>

\* main, lines 220-235: dedupe by name and company, one write, its failure logged
V1Write ==
    /\ prog = "v1"
    /\ vpc = "final"
    /\ \E ok \in BOOLEAN :
         vOutFile' = IF ok THEN Stringify(DedupeByKey(all)) ELSE vOutFile
    /\ vpc' = "done"
    /\ UNCHANGED <<prog, fastVars, parseVars, run, detailVars, splitVars, vMaxPages, vConcurrency, vContent, vPage, results, all,
                   consecutiveEmptyBatches, vhist>>

V1Next ==
    \/ V1Dispatch
    \/ V1Stagger
    \/ V1FetchSettles
    \/ V1Barrier
    \/ V1Delay
    \/ V1LoopEnd
    \/ V1Write

SpecV1 == InitV1 /\ [][V1Next]_vars

----------------------------------------------------------------------------
(* The heuristic stop of the v1 scraper *)

\* the pages for which a request was sent
V1Requested == {q \in DOMAIN results : results[q].phase \in {"inflight", "parsed", "failed"}}

\* the k-th merged batch yielded no entry: each of its pages failed or has none
V1EmptyBatch(k) ==
    \A q \in vhist[k]..(vhist[k] + vConcurrency - 1) :
        q <= vMaxPages => (results[q].phase = "failed" \/ vContent[q] # "brand")

\* the number of empty batches at the end of the first n merged batches
RECURSIVE TrailingEmpty(_)
TrailingEmpty(n) ==
    IF n = 0 THEN 0
    ELSE IF V1EmptyBatch(n) THEN 1 + TrailingEmpty(n - 1)
    ELSE 0

\* four consecutive batches among the merged ones yielded no entry
FourEmptyInARow ==
    \E k \in 1..(Len(vhist) - 3) : \A j \in k..(k + 3) : V1EmptyBatch(j)

\* the loop of main has been left
V1LoopLeft == vpc \in {"final", "done"}

\* C20: the v1 scraper stops paginating early exactly when four consecutive
\* batches have yielded no entries: the counter is the number of batches without
\* entries since the last batch with one (a failed page yields none), the loop is
\* left as soon as it is four, in no execution is a page above MAX_PAGES fetched,
\* and without four consecutive empty batches every page of [1..MAX_PAGES] is.
C20_HeuristicStop ==
    prog = "v1" =>
        /\ consecutiveEmptyBatches = TrailingEmpty(Len(vhist))
        /\ \A k \in DOMAIN vhist : vhist[k] = 1 + (k - 1) * vConcurrency
        /\ \A q \in V1Requested : 1 <= q /\ q <= vMaxPages
        /\ FourEmptyInARow =>
              /\ V1LoopLeft
              /\ TrailingEmpty(Len(vhist)) = 4
              /\ V1Requested = 1..Min(vMaxPages, vhist[Len(vhist)] + vConcurrency - 1)
        /\ (V1LoopLeft /\ ~FourEmptyInARow) =>
              /\ V1Requested = 1..vMaxPages
              /\ vPage > vMaxPages

\* a run has stopped early: a batch with entries, then four batches without, and
\* pages of [1..MAX_PAGES] that were never requested
C20_Witness ==
    /\ prog = "v1" /\ vpc = "done"
    /\ consecutiveEmptyBatches = 4
    /\ Len(all) > 0
    /\ Len(vhist) = 5
    /\ vMaxPages \notin V1Requested

----------------------------------------------------------------------------
(* Failed pages of a written batch *)

\* the file of the batch that begins at s has been written: it holds an array
BatchWritten(s) == files[<<s, LastPage(s)>>] # Missing /\ IsArrayText(files[<<s, LastPage(s)>>])

\* C27: once a batch's file has been written, even with zero records because
\* every page of the batch failed, the file stays as it is, every later run skips
\* the batch when it reaches it, and no page of the batch is requested again, in
\* this run or in a later one.
C27_WrittenBatchNeverRefetched ==
    [][ prog = "split" =>
          \A s \in BatchStarts :
              BatchWritten(s) =>
                  /\ files'[<<s, LastPage(s)>>] = files[<<s, LastPage(s)>>]
                  /\ \A p \in s..LastPage(s) :
                        fw'[p].phase \in {"inflight", "sleeping"} => fw'[p] = fw[p]
                  /\ (spc = "check" /\ start = s /\ run' = run) =>
                        (start' = s + batchSize /\ spc' = "check")
      ]_vars

\* a later run has ended without requesting the pages of a batch whose file an
\* earlier run wrote with zero records, although the site serves every page of it
C27_Witness ==
    /\ prog = "split" /\ run = 2 /\ spc = "done"
    /\ \E s \in BatchStarts :
         /\ files[<<s, LastPage(s)>>] = Stringify(<<>>)
         /\ s \in hist.closed /\ s \notin hist.wrote
         /\ \A p \in s..LastPage(s) : content[p] = "two" /\ fw[p].phase = "idle"

----------------------------------------------------------------------------
(* Error records and resuming *)

\* the store holds an error record and a success record with the same source_url
ErrorAndSuccessRecord ==
    \E j, k \in DOMAIN Records(outFile) :
        /\ Records(outFile)[j].kind = "error"
        /\ Records(outFile)[k].kind = "ok"
        /\ Records(outFile)[j].source_url # NoUrl
        /\ Records(outFile)[j].source_url = Records(outFile)[k].source_url

\* a request for input item k is sent in this step
RequestSent(k) == k \in dhist'.requested /\ k \notin dhist.requested

\* C28: an error record counts as processed: an item for whose source_url an
\* error record was persisted is never requested again, and the store never holds
\* both an error record and a success record for the same source_url.
C28_ErrorRecordIsProcessed ==
    /\ [](prog = "detail" => ~ErrorAndSuccessRecord)
    /\ [][ prog = "detail" =>
             \A k \in DOMAIN input :
                 RequestSent(k) => SourceUrlOf(input[k]) \notin dhist.errorSaved ]_vars

----------------------------------------------------------------------------
(* The order of a batch's output *)

\* record a comes before record b: an earlier page, or earlier in the same page
Before(a, b) ==
    \/ a.source_page < b.source_page
    \/ a.source_page = b.source_page /\ a.entry.pos < b.entry.pos

\* the records are in ascending page order and, within a page, in document order
InPageOrder(items) == \A j, k \in DOMAIN items : j < k => Before(items[j], items[k])

\* the pages of the current batch whose fetch returned a page the parser accepts
MergedPages == {p \in start..LastPage(start) : fw[p].success /\ content[p] = "two"}

\* the pages of the current batch whose fetch failed or whose page made the parser throw
FetchOrParseFailed == {p \in start..LastPage(start) : ~fw[p].success \/ content[p] = "bad"}

\* C29: the content and order of a batch's output do not depend on the order in
\* which the fetches of the batch return nor on their retries: after the barrier
\* the records are those of the pages fetched and parsed, each entry once, in
\* ascending page order and in document order within a page; the failed list holds
\* the fetch and parse failures, each page once, in ascending page order; and every
\* batch file on disk holds its records in that order.
C29_OrderIndependent ==
    prog = "split" =>
        /\ spc = "write" =>
              /\ InPageOrder(batchItems)
              /\ {batchItems[k].entry : k \in DOMAIN batchItems} =
                    {[page |-> p, pos |-> n] : p \in MergedPages, n \in {1, 2}}
              /\ \A k \in DOMAIN batchItems : batchItems[k].source_page = batchItems[k].entry.page
              /\ \A j, k \in DOMAIN batchFailed : j < k => batchFailed[j].page < batchFailed[k].page
              /\ {batchFailed[k].page : k \in DOMAIN batchFailed} = FetchOrParseFailed
        /\ \A s \in BatchStarts :
              BatchWritten(s) => InPageOrder(Records(files[<<s, LastPage(s)>>]))

\* the call of the second page of a batch returned before the call of the first
\* page, which needed a retry; the records of both pages have been merged
C29_Witness ==
    /\ prog = "split" /\ spc = "write"
    /\ LastPage(start) = start + 1
    /\ hist.settled = <<start + 1, start>>
    /\ fw[start].slept > 0 /\ fw[start + 1].slept = 0
    /\ Len(batchItems) = 4

----------------------------------------------------------------------------
(* The single-file "fast" scraper (src/unnamed/part_002).  fetchWithRetries, the *)
(* merge of the results, the batch delay and the final report are the code of    *)
(* the page-batch scraper; the actions FetchSettles, RetryDelay, BatchDelay and  *)
(* Report above are its steps too.                                               *)

\* a record an earlier version of the file may hold
OldRecord == [entry |-> [page |-> 0, pos |-> 1], source_page |-> 0]

\* the outcomes of one file operation: at most one failing call in a history
FastIoOutcomes == IF fhist.ioFailed THEN {TRUE} ELSE BOOLEAN

\* main: "append_failed: " + (err.message || String(err))
AppendFailed == [prefix |-> "append_failed: ", message |-> Message("write", 0)]

\* main, lines 205-207: pages not yet in batchFailures are added as append failures
RECURSIVE AddAppendFailures(_, _, _)
AddAppendFailures(failed, p, e) ==
    IF p > e THEN failed
    ELSE IF \E k \in DOMAIN failed : failed[k].page = p
         THEN AddAppendFailures(failed, p + 1, e)
         ELSE AddAppendFailures(Append(failed, [page |-> p, error |-> AppendFailed]), p + 1, e)

\* appendBatchToOutput(items): the text written, given whether the read succeeded
AppendedBatch(txt, readOk, items) ==
    LET arr == IF txt # Missing /\ readOk /\ IsArrayText(txt) THEN ParseArray(txt) ELSE <<>>
    IN  Stringify(arr \o items)

\* the first start: OUTFILE is missing or holds a record of an earlier version
FastInit ==
    /\ maxPages \in 1..MaxPagesBound
    /\ batchSize \in 1..MaxBatchBound
    /\ maxRetries \in 1..MaxRetriesBound
    /\ content \in Contents(maxPages)
    /\ files = [n \in AllNames |-> Missing]
    /\ spc = "init"
    /\ start = 1
    /\ fw = [p \in 1..(MaxPagesBound + MaxBatchBound) |-> Idle]
    /\ batchItems = <<>>
    /\ batchFailed = <<>>
    /\ failedPages = <<>>
    /\ totalSaved = 0
    /\ log = NoLog
    /\ failedUnique = <<>>
    /\ hist = NoHist
    /\ fOutFile \in {Missing, Stringify(<<OldRecord>>)}
    /\ fhist = NoFastHist

InitFast == prog = "fast" /\ run = 1 /\ FastInit /\ DetailIdle /\ V1Idle /\ ParseIdle

\* initOutputFile: OUTFILE is overwritten with []; its error is rethrown and main ends
initOutputFile ==
    /\ prog = "fast"
    /\ spc = "init"
    /\ \E ok \in FastIoOutcomes :
        /\ fOutFile' = IF ok THEN Stringify(<<>>) ELSE fOutFile
        /\ spc' = IF ok THEN "check" ELSE "exit"
        /\ fhist' = [fhist EXCEPT !.ioFailed = @ \/ ~ok, !.writeFailed = @ \/ ~ok]
    /\ UNCHANGED <<prog, run, detailVars, v1Vars, parseVars, maxPages, batchSize, maxRetries,
                   content, files, start, fw, batchItems, batchFailed, failedPages,
                   totalSaved, log, failedUnique, hist>>

\* main, lines 167-173: the pages of the batch, every fetchWithRetries call started
FastDispatch ==
    /\ prog = "fast"
    /\ spc = "check"
    /\ start <= maxPages
    /\ fw' = [p \in DOMAIN fw |->
                IF p \in PagesOf(start) THEN FirstAttempt(p)
                ELSE IF fw[p].phase = "done" THEN Idle ELSE fw[p]]
    /\ spc' = "await"
    /\ batchItems' = <<>>
    /\ batchFailed' = <<>>
    /\ hist' = [hist EXCEPT !.reached = Append(@, <<start, EndOf(start)>>),
                            !.settled = <<>>]
    /\ UNCHANGED <<prog, run, detailVars, v1Vars, parseVars, fastVars, maxPages, batchSize,
                   maxRetries, content, files, start, failedPages, totalSaved, log, failedUnique>>

\* main, lines 173-198 and, for a batch without items, lines 211-215: the merge of
\* the results; only a batch with items goes on to appendBatchToOutput
FastBarrier ==
    /\ prog = "fast"
    /\ spc = "await"
    /\ AllSettled(start)
    /\ LET items == MergeItems(start, EndOf(start))
           failed == MergeFailed(start, EndOf(start))
       IN  /\ batchItems' = items
           /\ batchFailed' = failed
           /\ fhist' = [fhist EXCEPT !.extracted = @ \o items]
           /\ IF Len(items) > 0
              THEN /\ spc' = "append"
                   /\ UNCHANGED <<failedPages, log>>
              ELSE /\ spc' = "delay"
                   /\ failedPages' = failedPages \o PagesIn(failed)
                   /\ log' = [start |-> start, end |-> EndOf(start),
                              saved |-> 0, failed |-> Len(failed)]
    /\ UNCHANGED <<prog, run, detailVars, v1Vars, parseVars, fOutFile, maxPages, batchSize,
                   maxRetries, content, files, start, fw, totalSaved, failedUnique, hist>>

\* main, lines 199-215: appendBatchToOutput ends (or throws), the failures are
\* recorded and the summary is printed
FastAppend ==
    /\ prog = "fast"
    /\ spc = "append"
    /\ \E readOk \in FastIoOutcomes, writeOk \in FastIoOutcomes :
        LET failedNow == IF writeOk THEN batchFailed
                         ELSE AddAppendFailures(batchFailed, start, EndOf(start))
        IN  /\ fOutFile' = IF writeOk THEN AppendedBatch(fOutFile, readOk, batchItems)
                           ELSE fOutFile
            /\ totalSaved' = IF writeOk THEN totalSaved + Len(batchItems) ELSE totalSaved
            /\ batchFailed' = failedNow
            /\ failedPages' = failedPages \o PagesIn(failedNow)
            /\ log' = [start |-> start, end |-> EndOf(start),
                       saved |-> Len(batchItems), failed |-> Len(failedNow)]
            /\ fhist' = [fhist EXCEPT !.ioFailed = @ \/ ~readOk \/ ~writeOk,
                                      !.writeFailed = @ \/ ~writeOk]
    /\ spc' = "delay"
    /\ UNCHANGED <<prog, run, detailVars, v1Vars, parseVars, maxPages, batchSize, maxRetries,
                   content, files, start, fw, batchItems, failedUnique, hist>>

\* the process is killed (or has ended) and the script is started again:
\* only OUTFILE survives
FastRestart ==
    /\ prog = "fast"
    /\ run < MaxRuns
    /\ run' = run + 1
    /\ spc' = "init"
    /\ start' = 1
    /\ fw' = [p \in DOMAIN fw |-> Idle]
    /\ batchItems' = <<>>
    /\ batchFailed' = <<>>
    /\ failedPages' = <<>>
    /\ totalSaved' = 0
    /\ log' = NoLog
    /\ failedUnique' = <<>>
    /\ hist' = NoHist
    /\ fhist' = [extracted |-> <<>>, ioFailed |-> fhist.ioFailed, writeFailed |-> FALSE]
    /\ UNCHANGED <<prog, detailVars, v1Vars, parseVars, fOutFile, maxPages, batchSize,
                   maxRetries, content, files>>

FastNext ==
    \/ initOutputFile
    \/ FastDispatch
    \/ FetchSettles
    \/ RetryDelay
    \/ FastBarrier
    \/ FastAppend
    \/ BatchDelay
    \/ Report
    \/ FastRestart

SpecFast == InitFast /\ [][FastNext]_vars

----------------------------------------------------------------------------
(* What a run of the fast scraper leaves in OUTFILE *)

\* the steps of a run: the first one overwrites OUTFILE with [] (or ends the run
\* when that write fails), no batch is skipped, a batch without records writes nothing
FastRunSteps ==
    /\ (spc = "init" /\ spc' # "exit") => fOutFile' = Stringify(<<>>)
    /\ (spc = "check" /\ start <= maxPages) =>
          /\ spc' = "await"
          /\ start' = start
          /\ \A p \in start..LastPage(start) : fw'[p].phase = "inflight"
    /\ (spc = "await" /\ spc' # "await" /\ Len(batchItems') = 0) =>
          (spc' = "delay" /\ fOutFile' = fOutFile)

\* C30: every run of the fast scraper first overwrites the output file with an
\* empty array and never skips a batch, so a restart begins at page 1 and the
\* records of earlier runs are discarded; at the end of a run without write
\* failures the file holds exactly the records extracted in that run, in batch
\* order; a batch that yielded no records performs no write.
C30_FreshFileEveryRun ==
    /\ [][ (prog = "fast" /\ run' = run) => FastRunSteps ]_vars
    /\ [](prog = "fast" =>
            /\ spc = "init" => start = 1
            /\ spc = "append" => Len(batchItems) > 0
            /\ spc \notin {"init", "exit"} =>
                  \A k \in DOMAIN Records(fOutFile) : Records(fOutFile)[k] # OldRecord
            /\ (spc = "done" /\ ~fhist.writeFailed) => fOutFile = Stringify(fhist.extracted))

----------------------------------------------------------------------------
(* Documents.  A text is a sequence of tokens: words, the space " " and the   *)
(* no-break space "nbsp".  The children of a section body are nodes:           *)
(*   [type "text", text]            a text node                                *)
(*   [type "tag", tag "strong", text]                                          *)
(*   [type "tag", tag "p", text]    any other element, holding text only       *)
(*   [type "tag", tag "ul" | "ol", items]   a list of li elements              *)
(* An li is [strong, text, sub]: its leading <strong> child (or NoStrong), its *)
(* own text, and the item texts of a <ul> nested in it.  text() of an element  *)
(* is the concatenation of the texts below it, in document order.              *)

MaxListItems == 2

Null == <<"null">>

NoStrong == <<"absent">>

\* the elements of arr at the indices in K, in order
Pick(arr, K) ==
    [n \in 1..Cardinality(K) |->
        arr[CHOOSE j \in K : Cardinality({m \in K : m < j}) = n - 1]]

\* .replace(/\u00A0/g, " ").replace(/\s+/g, " ").trim(): a no-break space is a
\* space, a run of spaces is one space, no space at either end
Norm(t) ==
    LET sp == [k \in DOMAIN t |-> IF t[k] = "nbsp" THEN " " ELSE t[k]]
        word(k) == sp[k] # " "
        keep == {k \in DOMAIN t :
                    \/ word(k)
                    \/ /\ k > 1
                       /\ word(k - 1)
                       /\ \E j \in (k + 1)..Len(t) : word(j)}
    IN  Pick(sp, keep)

\* normText($el): the normalized text, or null when nothing is left
normText(t) == IF Norm(t) = <<>> THEN Null ELSE Norm(t)

\* arr.join(" ")
RECURSIVE Join(_)
Join(arr) ==
    IF arr = <<>> THEN <<>>
    ELSE IF Len(arr) = 1 THEN arr[1]
    ELSE arr[1] \o <<" ">> \o Join(Tail(arr))

\* the texts of arr one after the other, as text() reads them
RECURSIVE Concat(_)
Concat(arr) == IF arr = <<>> THEN <<>> ELSE arr[1] \o Concat(Tail(arr))

\* arr.map(normalize).filter(Boolean)
NormNonBlank(arr) ==
    Pick([k \in DOMAIN arr |-> Norm(arr[k])], {k \in DOMAIN arr : Norm(arr[k]) # <<>>})

\* $(li).text()
LiText(li) ==
    (IF li.strong = NoStrong THEN <<>> ELSE li.strong) \o li.text \o Concat(li.sub)

\* $(node).text()
NodeText(node) ==
    IF node.type = "text" \/ node.tag \in {"strong", "p"} THEN node.text
    ELSE Concat([k \in DOMAIN node.items |-> LiText(node.items[k])])

\* $(list).find("li"), as texts: every li of the list and, after each, the li
\* elements of the list nested in it
RECURSIVE AllLiTexts(_)
AllLiTexts(items) ==
    IF items = <<>> THEN <<>>
    ELSE <<LiText(items[1])>> \o items[1].sub \o AllLiTexts(Tail(items))

----------------------------------------------------------------------------
(* parseSectionToStructuredArray (src/unnamed/part_001, lines 265-366) *)

\* the accumulators of the walk: out, currTitle, currInfos, currItems
SectionStart == [out |-> <<>>, title |-> Null, infos |-> <<>>, items |-> <<>>]

\* flushCurrent()
flushCurrent(st) ==
    LET infosText == Norm(Join(st.infos))
        itemsArr == NormNonBlank(st.items)
        group == [title |-> st.title,
                  information |-> IF infosText = <<>> THEN Null ELSE infosText,
                  items |-> itemsArr]
    IN  [out |-> IF st.title # Null \/ infosText # <<>> \/ itemsArr # <<>>
                 THEN Append(st.out, group) ELSE st.out,
         title |-> Null, infos |-> <<>>, items |-> <<>>]

\* variant: a heading does not flush the group before it
SectionStep_noFlush(st, node) ==
    IF node.type = "text" \/ node.tag = "p"
    THEN IF Norm(node.text) # <<>> THEN [st EXCEPT !.infos = Append(@, Norm(node.text))] ELSE st
    ELSE IF node.tag = "strong"
    THEN [st EXCEPT !.title = normText(node.text)]
    ELSE [st EXCEPT !.items = @ \o NormNonBlank(AllLiTexts(node.items))]

\* the body of the loop over the children, lines 309-359
SectionStep(st, node) ==
    IF node.type = "text" \/ node.tag = "p"
    THEN IF Norm(node.text) # <<>> THEN [st EXCEPT !.infos = Append(@, Norm(node.text))] ELSE st
    ELSE IF node.tag = "strong"
    THEN [flushCurrent(st) EXCEPT !.title = normText(node.text)]
    ELSE [st EXCEPT !.items = @ \o NormNonBlank(AllLiTexts(node.items))]

RECURSIVE SectionWalk(_, _)
SectionWalk(children, st) ==
    IF children = <<>> THEN st
    ELSE SectionWalk(Tail(children), SectionStep(st, children[1]))

\* parseSectionToStructuredArray, given the children of the section body
parseSectionToStructuredArray(children) ==
    LET out == flushCurrent(SectionWalk(children, SectionStart)).out
        full == normText(Concat([k \in DOMAIN children |-> NodeText(children[k])]))
    IN  IF out = <<>> /\ full # Null
        THEN <<[title |-> Null, information |-> full, items |-> <<>>]>>
        ELSE out

\* the texts the documents are built from: empty, one word, words with spaces
\* and no-break spaces around and between them
Texts == {<<>>, <<"a">>, <<" ", "b", "nbsp", " ", "c", " ">>}

\* the texts of list items
ItemTexts == {<<>>, <<"x">>, <<"nbsp", "y", " ", " ", "z">>}

TextNode(t) == [type |-> "text", text |-> t]

Strong(t) == [type |-> "tag", tag |-> "strong", text |-> t]

Para(t) == [type |-> "tag", tag |-> "p", text |-> t]

List(tag, items) == [type |-> "tag", tag |-> tag, items |-> items]

\* an li without a <strong> child and without a nested list
PlainLi(t) == [strong |-> NoStrong, text |-> t, sub |-> <<>>]

\* the lists of plain items
PlainLists ==
    {List(tag, [k \in DOMAIN ts |-> PlainLi(ts[k])]) :
        tag \in {"ul", "ol"}, ts \in SeqsUpTo(ItemTexts, MaxListItems)}

\* a heading, a paragraph and a list
HeadedPart == {<<Strong(h), Para(q), l>> : h \in Texts, q \in Texts, l \in PlainLists}

\* the section bodies considered: two headed parts (the second paragraph is one
\* word), with or without the white space between the elements that the markup
\* has; one paragraph; one text node
SectionBodies ==
    {a \o b : a \in HeadedPart, b \in {h \in HeadedPart : h[2] = Para(<<"a">>)}}
    \cup {<<TextNode(<<" ">>), a[1], TextNode(<<" ">>), a[2], a[3], TextNode(<<" ", " ">>)>> \o b :
             a \in HeadedPart, b \in {<<Strong(<<"a">>), Para(<<"a">>), List("ul", <<PlainLi(<<"x">>)>>)>>}}
    \cup {<<Para(q)>> : q \in Texts}
    \cup {<<TextNode(q)>> : q \in Texts}

SectionInit == fn = "none" /\ arg \in SectionBodies /\ ret = <<>>

InitSection ==
    prog = "parse" /\ run = 1 /\ SectionInit /\ DetailIdle /\ SplitIdle /\ V1Idle /\ FastIdle

\* one call of parseSectionToStructuredArray
ParseSection ==
    /\ prog = "parse"
    /\ fn = "none"
    /\ fn' = "parseSectionToStructuredArray"
    /\ ret' = parseSectionToStructuredArray(arg)
    /\ UNCHANGED <<prog, run, detailVars, splitVars, v1Vars, fastVars, arg>>

SectionNext == ParseSection

SpecSection == InitSection /\ [][SectionNext]_vars

\* the text as a reader sees it, read from left to right: white space (spaces
\* and no-break spaces) before the first word and after the last is left out and
\* white space between two words is one space
RECURSIVE VisibleFrom(_, _, _, _)
VisibleFrom(t, k, gap, acc) ==
    IF k > Len(t) THEN acc
    ELSE IF t[k] \in {" ", "nbsp"} THEN VisibleFrom(t, k + 1, acc # <<>>, acc)
    ELSE VisibleFrom(t, k + 1, FALSE, IF gap THEN acc \o <<" ", t[k]>> ELSE Append(acc, t[k]))

Visible(t) == VisibleFrom(t, 1, FALSE, <<>>)

\* the body is two headings, each followed by one paragraph and one bullet list,
\* all of them with text
TwoHeadedParts ==
    /\ Len(arg) = 6
    /\ \A k \in {1, 4} : arg[k].tag = "strong" /\ Visible(arg[k].text) # <<>>
    /\ \A k \in {2, 5} : arg[k].tag = "p" /\ Visible(arg[k].text) # <<>>
    /\ \A k \in {3, 6} :
          /\ arg[k].tag \in {"ul", "ol"}
          /\ \A j \in DOMAIN arg[k].items : Visible(arg[k].items[j].text) # <<>>

\* the group the claim expects for the heading at place k of the body
ExpectedGroup(k) ==
    [title |-> Visible(arg[k].text),
     information |-> Visible(arg[k + 1].text),
     items |-> [j \in DOMAIN arg[k + 2].items |-> Visible(arg[k + 2].items[j].text)]]

\* C21: a section body whose children are two bold headings, each followed by
\* one paragraph and one bullet list, parses into exactly two groups in document
\* order, each with its heading as title, its paragraph as information and its
\* list's item texts, in order, as items (texts as normalized by the parser); a
\* body of one paragraph and no heading parses into exactly one group with title
\* null, the paragraph as information and no items.
C21_SectionGroups ==
    (prog = "parse" /\ fn = "parseSectionToStructuredArray") =>
        /\ TwoHeadedParts => ret = <<ExpectedGroup(1), ExpectedGroup(4)>>
        /\ (Len(arg) = 1 /\ arg[1].type = "tag" /\ arg[1].tag = "p" /\ Visible(arg[1].text) # <<>>) =>
              ret = <<[title |-> Null, information |-> Visible(arg[1].text), items |-> <<>>]>>

\* a body of two headings, paragraphs and two-item lists whose texts needed
\* normalizing has been parsed into two groups
C21_Witness ==
    /\ prog = "parse" /\ fn = "parseSectionToStructuredArray"
    /\ TwoHeadedParts
    /\ arg[1].text # Visible(arg[1].text) /\ arg[2].text # Visible(arg[2].text)
    /\ arg[4].text # arg[1].text
    /\ Len(arg[3].items) = 2 /\ Len(arg[6].items) = 2
    /\ arg[3].items[1].text # arg[3].items[2].text
    /\ Len(ret) = 2 /\ Len(ret[1].items) = 2

----------------------------------------------------------------------------
(* The dosage block of parseBrandDetail (src/unnamed/part_001, lines 601-752) *)

\* what the call leaves when a TypeError is thrown
TypeError == <<[threw |-> "TypeError"]>>

\* null where an array of texts is expected
NullArray == <<Null>>

\* pushGroup(groups, medType, infos, instr); infos.length of null throws
pushGroup(groups, medType, infos, instr) ==
    IF groups = TypeError \/ infos = NullArray THEN TypeError
    ELSE Append(groups,
                [medication_type |-> medType,
                 information |-> IF infos = <<>> THEN Null ELSE Norm(Join(infos)),
                 instructions |-> NormNonBlank(instr)])

\* the accumulators of the walk: dosageArray, currMed, currInfos, currInstr
DosageStart == [out |-> <<>>, med |-> Null, infos |-> <<>>, instr |-> <<>>]

\* lines 634-639: the group accumulated so far is pushed, if there is one
PushPending(st) ==
    IF st.med # Null \/ st.infos # <<>> \/ st.instr # <<>>
    THEN [out |-> pushGroup(st.out, st.med, st.infos, st.instr),
          med |-> Null, infos |-> <<>>, instr |-> <<>>]
    ELSE st

\* variant: no list is treated item by item
liHasStrong_never(items) == FALSE

\* lines 643-648: some li of the list has a <strong> child
liHasStrong(items) == \E k \in DOMAIN items : items[k].strong # NoStrong

\* lines 656-699: every li of the list becomes a group of its own
RECURSIVE ItemGroups(_, _)
ItemGroups(items, groups) ==
    IF items = <<>> THEN groups
    ELSE LET li == items[1]
             rest == Norm(li.text \o Concat(li.sub))
             t == Norm(LiText(li))
         IN  ItemGroups(Tail(items),
                 IF li.strong # NoStrong
                 THEN pushGroup(groups, normText(li.strong),
                                IF rest # <<>> THEN <<rest>> ELSE <<>>,
                                NormNonBlank(li.sub))
                 ELSE IF t # <<>> THEN pushGroup(groups, Null, NullArray, <<t>>)
                 ELSE groups)

\* $node.find("ul") ... find("li"), as texts, for a node that is no <ul>: the
\* items of the lists nested in the li elements of an <ol>
NestedUlTexts(node) ==
    IF node.tag = "ol" THEN Concat([k \in DOMAIN node.items |-> node.items[k].sub])
    ELSE <<>>

\* the body of the loop over the children, lines 621-736
DosageStep(st, node) ==
    IF st.out = TypeError THEN st
    ELSE IF node.type = "text"
    THEN IF Norm(node.text) # <<>> THEN [st EXCEPT !.infos = Append(@, Norm(node.text))] ELSE st
    ELSE IF node.tag = "strong"
    THEN [PushPending(st) EXCEPT !.med = normText(node.text)]
    ELSE IF node.tag = "ul"
    THEN IF liHasStrong(node.items)
         THEN [PushPending(st) EXCEPT !.out = ItemGroups(node.items, PushPending(st).out)]
         ELSE [st EXCEPT !.instr = @ \o NormNonBlank(AllLiTexts(node.items))]
    ELSE [st EXCEPT !.instr = @ \o NormNonBlank(NestedUlTexts(node)),
                    !.infos = IF Norm(NodeText(node)) # <<>>
                              THEN Append(@, Norm(NodeText(node))) ELSE @]

RECURSIVE DosageWalk(_, _)
DosageWalk(children, st) ==
    IF children = <<>> THEN st
    ELSE DosageWalk(Tail(children), DosageStep(st, children[1]))

\* dosageArray, given the children of the dosage body; a TypeError ends parseBrandDetail
dosageArray(children) ==
    LET out == PushPending(DosageWalk(children, DosageStart)).out
        plain == normText(Concat([k \in DOMAIN children |-> NodeText(children[k])]))
    IN  IF out = <<>> /\ plain # Null
        THEN <<[medication_type |-> Null, information |-> plain, instructions |-> <<>>]>>
        ELSE out

\* the li elements considered: with or without a leading <strong>, with or
\* without text, with or without a nested list
Lis ==
    [strong : {NoStrong, <<"M">>, <<" ", "N", "nbsp">>},
     text : ItemTexts,
     sub : {<<>>, <<<<"s", " ">>>>}]

\* what precedes the list in the bodies considered
DosagePrefixes ==
    {<<>>} \cup {<<Strong(h)>> : h \in {<<"a">>, <<" ", "b", "nbsp", " ", "c", " ">>}}
           \cup {<<Strong(<<"a">>), Para(q)>> : q \in {<<"a">>, <<"b", " ", " ", "c">>}}

\* the dosage bodies considered: nothing, a heading, or a heading and a
\* paragraph, followed by a list
DosageBodies ==
    {pre \o <<List(tag, items)>> :
        pre \in DosagePrefixes, tag \in {"ul", "ol"}, items \in SeqsUpTo(Lis, MaxListItems)}

DosageInit == fn = "none" /\ arg \in DosageBodies /\ ret = <<>>

InitDosage ==
    prog = "parse" /\ run = 1 /\ DosageInit /\ DetailIdle /\ SplitIdle /\ V1Idle /\ FastIdle

\* one call of parseBrandDetail, as far as its dosage block is concerned
ParseDosage ==
    /\ prog = "parse"
    /\ fn = "none"
    /\ fn' = "parseBrandDetail"
    /\ ret' = dosageArray(arg)
    /\ UNCHANGED <<prog, run, detailVars, splitVars, v1Vars, fastVars, arg>>

DosageNext == ParseDosage

SpecDosage == InitDosage /\ [][DosageNext]_vars


\* the list of the body, its last child
TheList == arg[Len(arg)]

\* the group open when the list is reached: the heading and paragraph before it
HeadingBefore == IF Len(arg) >= 2 THEN Visible(arg[1].text) ELSE Null

ParagraphBefore == IF Len(arg) >= 3 THEN Visible(arg[2].text) ELSE Null

\* the texts of the items of the list and of the lists nested in them, in
\* document order, those without a word left out
ItemTextsInOrder ==
    LET ts == AllLiTexts(TheList.items)
    IN  Pick([k \in DOMAIN ts |-> Visible(ts[k])], {k \in DOMAIN ts : Visible(ts[k]) # <<>>})

\* a list in which every item starts with a bold node yields one group per
\* item, in order, with medication_type = the item's bold text
OneGroupPerItem ==
    LET items == TheList.items
        first == Len(ret) - Len(items)
    IN  /\ ret # TypeError
        /\ first = (IF Len(arg) >= 2 THEN 1 ELSE 0)
        /\ \A k \in DOMAIN items : ret[first + k].medication_type = Visible(items[k].strong)

\* a list without a bold-first item creates no group: its item texts are
\* appended to the instructions of the group open when the list is reached
FoldedIntoCurrentGroup ==
    /\ ret # TypeError
    /\ Len(ret) <= 1
    /\ (Len(arg) >= 2 \/ ItemTextsInOrder # <<>>) =>
          ret = <<[medication_type |-> HeadingBefore,
                   information |-> ParagraphBefore,
                   instructions |-> ItemTextsInOrder]>>

EveryItemBold ==
    TheList.items # <<>> /\ \A k \in DOMAIN TheList.items : TheList.items[k].strong # NoStrong

NoItemBold ==
    TheList.items # <<>> /\ \A k \in DOMAIN TheList.items : TheList.items[k].strong = NoStrong

MixedList ==
    /\ TheList.tag = "ul"
    /\ \E k \in DOMAIN TheList.items : TheList.items[k].strong # NoStrong
    /\ \E k \in DOMAIN TheList.items :
          TheList.items[k].strong = NoStrong /\ Visible(LiText(TheList.items[k])) # <<>>

\* C23: in a list where at least one item starts with a bold node, a non-empty
\* item without a leading bold node yields a standalone DosageGroup with
\* medication_type null and the item's full text as its only instruction, and the
\* extraction of the page completes and returns a record: it does not throw.
C23_StandaloneGroup ==
    (prog = "parse" /\ fn = "parseBrandDetail" /\ MixedList) =>
        /\ ret # TypeError
        /\ \A k \in DOMAIN TheList.items :
              (TheList.items[k].strong = NoStrong /\ Visible(LiText(TheList.items[k])) # <<>>) =>
                  \E g \in DOMAIN ret :
                      /\ ret[g].medication_type = Null
                      /\ ret[g].instructions = <<Visible(LiText(TheList.items[k]))>>

-----------------------------------------------------------------------------
(* Pricing of a brand page (parseBrandDetail).  A package container is      *)
(* [direct, psi, divs]: the texts of its direct spans other than the        *)
(* pack-size span, the text of its .pack-size-info element or NoElement,    *)
(* and, for each child div, the texts of the spans inside it.               *)

MaxPackages == 2

\* a selection that matched no element
NoElement == <<"absent">>

\* cleanText($el)
cleanText(el) == IF el = NoElement THEN Null ELSE normText(el)

\* cleanText(span)?.replace(/:$/, "") || null
labelOf(el) ==
    LET c == cleanText(el)
        cut == IF c[Len(c)] = ":" THEN SubSeq(c, 1, Len(c) - 1) ELSE c
    IN  IF c = Null \/ cut = <<>> THEN Null ELSE cut

\* $pc.find("div span").last()
nestedValueSpan(pc) ==
    LET spans == Concat(pc.divs)
    IN  IF spans = <<>> THEN NoElement ELSE spans[Len(spans)]

\* the entry pushed for the direct spans of a container, if any
DirectEntries(pc) ==
    IF Len(pc.direct) >= 2
    THEN <<[label |-> labelOf(pc.direct[1]),
            price |-> cleanText(pc.direct[2]),
            pack_size_info |-> cleanText(pc.psi)]>>
    ELSE IF Len(pc.direct) = 1
    THEN <<[label |-> labelOf(pc.direct[1]),
            price |-> cleanText(nestedValueSpan(pc)),
            pack_size_info |-> cleanText(pc.psi)]>>
    ELSE <<>>

\* the entries pushed for the child divs with two spans or more
DivEntries(pc) ==
    LET two == {j \in DOMAIN pc.divs : Len(pc.divs[j]) >= 2}
    IN  [n \in 1..Cardinality(two) |->
            LET d == pc.divs[CHOOSE j \in two : Cardinality({m \in two : m < j}) = n - 1]
            IN  [label |-> labelOf(d[1]), price |-> cleanText(d[2]), pack_size_info |-> Null]]

\* the scan of .packages-wrapper .package-container
RECURSIVE packageEntries(_)
packageEntries(pcs) ==
    IF pcs = <<>> THEN <<>>
    ELSE DirectEntries(Head(pcs)) \o DivEntries(Head(pcs)) \o packageEntries(Tail(pcs))

\* (p.label || "") + "||" + (p.price || "")
PackageKey(p) ==
    <<IF p.label = Null THEN <<>> ELSE p.label, "||", IF p.price = Null THEN <<>> ELSE p.price>>

\* the first entry of every key, in order
packagesOf(entries) ==
    Pick(entries, {j \in DOMAIN entries :
                      \A m \in 1..(j - 1) : PackageKey(entries[m]) # PackageKey(entries[j])})

\* toLowerCase of the words of a label, as the i flag compares them
LowerWord(w) ==
    IF w \in {"Unit", "UNIT"} THEN "unit"
    ELSE IF w \in {"Strip", "STRIP"} THEN "strip"
    ELSE IF w \in {"Price", "PRICE"} THEN "price"
    ELSE w

\* /unit price/i.test(p.label || "") and /strip price/i.test(p.label || "")
LabelTest(label, first) ==
    /\ label # Null
    /\ \E k \in 1..(Len(label) - 2) :
          /\ LowerWord(label[k]) = first
          /\ label[k + 1] = " "
          /\ LowerWord(label[k + 2]) = "price"

\* the loop over packages: the price of the first entry of that label that has one
PriceByLabel(packages, first) ==
    LET hits == {k \in DOMAIN packages :
                    LabelTest(packages[k].label, first) /\ packages[k].price # Null}
    IN  IF hits = {} THEN Null
        ELSE packages[CHOOSE k \in hits : \A m \in hits : k <= m].price

\* the loop over packages: the first pack size info there is
FirstPackSize(packages) ==
    LET hits == {k \in DOMAIN packages : packages[k].pack_size_info # Null}
    IN  IF hits = {} THEN Null
        ELSE packages[CHOOSE k \in hits : \A m \in hits : k <= m].pack_size_info

\* the pricing object, with the defaults taken from packages[0]
pricing(pcs) ==
    LET packages == packagesOf(packageEntries(pcs))
        byLabel == PriceByLabel(packages, "unit")
        size == FirstPackSize(packages)
    IN  [unit_price |-> IF byLabel = Null /\ Len(packages) > 0 THEN packages[1].price
                        ELSE byLabel,
         strip_price |-> PriceByLabel(packages, "strip"),
         pack_size_info |-> IF size = Null /\ Len(packages) > 0
                            THEN packages[1].pack_size_info ELSE size,
         packages |-> packages]

\* the label texts of the pages
LabelTexts == {<<"Unit", " ", "Price", ":">>, <<"STRIP", " ", "price">>, <<"Pack">>}

\* the price texts of the pages: a price or an empty span
PriceTexts == {<<"nbsp", "5">>, <<"nbsp">>}

\* the package containers of the pages
PackageContainers ==
    [direct : {<<>>} \cup {<<l>> : l \in LabelTexts}
                \cup {<<l, p>> : l \in LabelTexts, p \in PriceTexts}
                \cup {<<<<>>, <<"nbsp", "5">>>>},
     psi : {NoElement, <<"10", "s">>},
     divs : {<<>>, <<<<<<"Pack">>>>>>, <<<<<<"Pack">>, <<"7">>>>>>}]

PricingInit ==
    /\ fn = "none"
    /\ arg \in SeqsUpTo(PackageContainers, MaxPackages)
    /\ ret = <<>>

InitPricing ==
    /\ prog = "parse"
    /\ run = 1
    /\ PricingInit
    /\ DetailIdle /\ SplitIdle /\ V1Idle /\ FastIdle

\* parseBrandDetail on a page with these package containers
ParsePricing ==
    /\ prog = "parse"
    /\ fn = "none"
    /\ fn' = "pricing"
    /\ ret' = <<pricing(arg)>>
    /\ UNCHANGED <<prog, run, detailVars, splitVars, v1Vars, fastVars, arg>>

PricingNext == ParsePricing

SpecPricing == InitPricing /\ [][PricingNext]_vars

\* C24: whenever the packages list of a page is non-empty, the pricing
\* summary is not fully null: at least one of unit_price, strip_price and
\* pack_size_info has a value, for every shape of package entry of the scan.
C24_PricingNeverFullyNull ==
    fn = "pricing" /\ ret[1].packages # <<>> =>
        \/ ret[1].unit_price # Null
        \/ ret[1].strip_price # Null
        \/ ret[1].pack_size_info # Null

\* the summary is null although an entry of the list carries a price
C24_PriceDropped ==
    ~ /\ fn = "pricing"
      /\ \E k \in DOMAIN ret[1].packages : ret[1].packages[k].price # Null
      /\ ret[1].unit_price = Null
      /\ ret[1].strip_price = Null
      /\ ret[1].pack_size_info = Null

-----------------------------------------------------------------------------
(* The positional listing extractor (parsePageByStructure of the listing    *)
(* scraper).  An entry of a page is [link, nameText, strength, generic,     *)
(* company, price]: the href of its /medicine/ anchor, the text of its      *)
(* heading link, and for each field the text of its <p> element, or         *)
(* NoElement when the markup has no such element.                           *)

MaxEntries == 1

\* String.prototype.trim: white space and no-break spaces at both ends go
trim(t) ==
    LET words == {k \in DOMAIN t : t[k] \notin {" ", "nbsp"}}
    IN  IF words = {} THEN <<>>
        ELSE SubSeq(t, CHOOSE k \in words : \A m \in words : k <= m,
                       CHOOSE k \in words : \A m \in words : m <= k)

\* nameText.split(" | ").map(s => s.trim()): the parts around the separators
SplitName(t) ==
    LET seps == {k \in DOMAIN t : t[k] = " | "}
        cut(n) == IF n = 0 THEN 0
                  ELSE IF n > Cardinality(seps) THEN Len(t) + 1
                  ELSE CHOOSE k \in seps : Cardinality({m \in seps : m < k}) = n - 1
    IN  [n \in 1..(Cardinality(seps) + 1) |-> trim(SubSeq(t, cut(n - 1) + 1, cut(n) - 1))]

\* $li.find("div > p").toArray().map(p => $(p).text().trim())
pArray(li) ==
    LET ps == <<li.strength, li.generic, li.company, li.price>>
    IN  [k \in 1..Cardinality({j \in DOMAIN ps : ps[j] # NoElement}) |->
            trim(Pick(ps, {j \in DOMAIN ps : ps[j] # NoElement})[k])]

\* arr[k] || null
AtOrNull(arr, k) == IF k \in DOMAIN arr /\ arr[k] # <<>> THEN arr[k] ELSE Null

\* the record of one li, or no record when the link or the name is missing
PositionalRecord(li) ==
    LET names == SplitName(trim(li.nameText))
        ps == pArray(li)
    IN  IF li.link = NoElement \/ names[1] = <<>> THEN <<>>
        ELSE <<[name_en |-> names[1],
                name_bn |-> AtOrNull(names, 2),
                source_url |-> <<"ORIGIN">> \o li.link,
                company |-> AtOrNull(ps, 3),
                price |-> AtOrNull(ps, 4),
                generic |-> AtOrNull(ps, 2),
                strength |-> AtOrNull(ps, 1)]>>

\* parsePageByStructure(html, pageUrl) of the positional extractor
RECURSIVE parsePositional(_)
parsePositional(lis) ==
    IF lis = <<>> THEN <<>>
    ELSE PositionalRecord(Head(lis)) \o parsePositional(Tail(lis))

\* the entries of the listing pages
ListingEntries ==
    [link : {NoElement, <<"/medicine/", "napa">>},
     nameText : {<<" ">>, <<"Napa", " ">>, <<"Napa", " | ", "Bn">>},
     strength : {NoElement, <<"nbsp">>, <<"nbsp", "500", " ", "mg", " ">>},
     generic : {NoElement, <<"nbsp">>, <<"Paracetamol">>},
     company : {NoElement, <<"nbsp">>, <<"Beximco", " ">>},
     price : {NoElement, <<"nbsp">>, <<"5">>}]

PositionalInit ==
    /\ fn = "none"
    /\ arg \in SeqsUpTo(ListingEntries, MaxEntries)
    /\ ret = <<>>

InitPositional ==
    /\ prog = "parse"
    /\ run = 1
    /\ PositionalInit
    /\ DetailIdle /\ SplitIdle /\ V1Idle /\ FastIdle

\* one call of parsePageByStructure on a page with these entries
ParsePositional ==
    /\ prog = "parse"
    /\ fn = "none"
    /\ fn' = "parsePageByStructure"
    /\ ret' = parsePositional(arg)
    /\ UNCHANGED <<prog, run, detailVars, splitVars, v1Vars, fastVars, arg>>

PositionalNext == ParsePositional

SpecPositional == InitPositional /\ [][PositionalNext]_vars

\* the text a field of an entry shows, Null when the entry has no such text
ShownField(el) == IF el = NoElement \/ trim(el) = <<>> THEN Null ELSE trim(el)

\* the entry has a link and a name, so that it yields a record
Listed(li) == li.link # NoElement /\ trim(li.nameText) # <<>>

\* C25: for an entry in which some of the four positional fields (strength,
\* generic, company, price) are absent from the markup, every field that is
\* present is assigned to its own field and every absent field is null,
\* whichever of the fields are the missing ones.
C25_NoFieldShifted ==
    fn = "parsePageByStructure" /\ Len(arg) = 1 /\ Listed(arg[1]) =>
        /\ Len(ret) = 1
        /\ ret[1].strength = ShownField(arg[1].strength)
        /\ ret[1].generic = ShownField(arg[1].generic)
        /\ ret[1].company = ShownField(arg[1].company)
        /\ ret[1].price = ShownField(arg[1].price)

\* the same when the elements that are missing are the last ones of the
\* entry, or when every element is there and some are empty
C25_TrailingAbsent ==
    /\ fn = "parsePageByStructure" /\ Len(arg) = 1 /\ Listed(arg[1])
    /\ LET ps == <<arg[1].strength, arg[1].generic, arg[1].company, arg[1].price>>
       IN  \A j \in 1..3 : ps[j] = NoElement => ps[j + 1] = NoElement
    => C25_NoFieldShifted

-----------------------------------------------------------------------------
(* The label-first listing extractor (parsePageByStructure of the split and *)
(* the single-file scraper).  A data row is the sequence of its .col-xs-12  *)
(* columns; a column is [kind, text]: "top" is .data-row-top, "strength" is *)
(* .data-row-strength, "company" holds the .data-row-company element, and   *)
(* "plain" carries no label.  The records are modelled by their four text   *)
(* fields.                                                                  *)

MaxColumns == 3

\* $dataRow.find(selector).text().trim() for the columns of that kind
LabeledText(cols, kind) ==
    trim(Concat(Pick([k \in DOMAIN cols |-> cols[k].text],
                     {k \in DOMAIN cols : cols[k].kind = kind})))

\* /(Ltd|Limited|PLC|Pharma|Laboratories|Ltd\.)/i.test(lastText)
CompanySuffix(t) ==
    \E k \in DOMAIN t : t[k] \in {"Ltd", "ltd", "Limited", "PLC", "Pharma", "Laboratories"}

\* the generic of a data row: column 2 first, then the first column that fits
genericOf(cols, name, strength) ==
    LET candidate == IF Len(cols) >= 3 THEN trim(cols[3].text) ELSE <<>>
        fits == {k \in DOMAIN cols :
                    /\ trim(cols[k].text) # <<>>
                    /\ trim(cols[k].text) # name
                    /\ trim(cols[k].text) # strength
                    /\ cols[k].kind = "plain"}
    IN  IF Len(cols) >= 3 /\ candidate # <<>> /\ cols[3].kind # "company" THEN candidate
        ELSE IF fits = {} THEN Null
        ELSE trim(cols[CHOOSE k \in fits : \A m \in fits : k <= m].text)

\* the company of a data row: the labeled element first, then the last column
companyOf(cols) ==
    LET labeled == LabeledText(cols, "company")
        lastText == trim(cols[Len(cols)].text)
    IN  IF labeled # <<>> THEN labeled
        ELSE IF cols # <<>> /\ CompanySuffix(lastText) THEN lastText
        ELSE Null

\* the record of one data row, or no record when it has no name
LabelFirstRecord(cols) ==
    LET name == LabeledText(cols, "top")
        strength == IF LabeledText(cols, "strength") = <<>> THEN Null
                    ELSE LabeledText(cols, "strength")
    IN  IF name = <<>> THEN <<>>
        ELSE <<[name |-> name,
                strength |-> strength,
                generic |-> genericOf(cols, name, strength),
                company |-> companyOf(cols)]>>

\* parsePageByStructure(html, pageUrl) of the label-first extractor
RECURSIVE parseLabelFirst(_)
parseLabelFirst(rows) ==
    IF rows = <<>> THEN <<>>
    ELSE LabelFirstRecord(Head(rows)) \o parseLabelFirst(Tail(rows))

\* the columns of the data rows
Columns ==
    [kind : {"top", "strength", "company", "plain"},
     text : {<<"Napa", " ">>, <<"500mg">>, <<"Paracetamol">>, <<"Square", " ", "Ltd">>, <<"nbsp">>}]

LabelFirstInit ==
    /\ fn = "none"
    /\ arg \in {<<>>} \cup {<<cols>> : cols \in SeqsUpTo(Columns, MaxColumns)}
    /\ ret = <<>>

InitLabelFirst ==
    /\ prog = "parse"
    /\ run = 1
    /\ LabelFirstInit
    /\ DetailIdle /\ SplitIdle /\ V1Idle /\ FastIdle

\* one call of parsePageByStructure on a page with these data rows
ParseLabelFirst ==
    /\ prog = "parse"
    /\ fn = "none"
    /\ fn' = "parseLabelFirst"
    /\ ret' = parseLabelFirst(arg)
    /\ UNCHANGED <<prog, run, detailVars, splitVars, v1Vars, fastVars, arg>>

LabelFirstNext == ParseLabelFirst

SpecLabelFirst == InitLabelFirst /\ [][LabelFirstNext]_vars

\* C26: in every record of the label-first extractor the generic is never the
\* same column text as the record's name, strength or company, for every
\* entry shape, including entries without a labeled company element whose
\* last column matches the company-suffix pattern.
C26_GenericNotReused ==
    fn = "parseLabelFirst" =>
        \A k \in DOMAIN ret :
            ret[k].generic # Null =>
                ret[k].generic \notin {ret[k].name, ret[k].strength, ret[k].company}

\* the rows in which the name, the strength and the company all carry their
\* label and no other column repeats their text
C26_AllLabeled ==
    /\ fn = "parseLabelFirst"
    /\ \A r \in DOMAIN arg : \A k \in DOMAIN arg[r] :
          arg[r][k].kind = "plain" =>
              \A j \in DOMAIN arg[r] :
                  arg[r][j].kind # "plain" => trim(arg[r][j].text) # trim(arg[r][k].text)
    /\ \A r \in DOMAIN arg : \A k \in DOMAIN arg[r] :
          arg[r][k].kind = "plain" => ~CompanySuffix(arg[r][k].text)
    /\ \A r \in DOMAIN arg : Len(arg[r]) >= 3 => arg[r][3].kind \in {"plain", "company"}
    => C26_GenericNotReused

====
